---- MODULE Spec2Model ----
(***************************************************************************)
(* Connection resilience engine of browser-robot.                          *)
(*                                                                         *)
(* MCPService (src/unnamed/part_000) owns the subprocess transport and the *)
(* reconnection policy; BrowserService (src/api/services/browser-          *)
(* service.ts) is the gateway that wraps every tool call.                  *)
(*                                                                         *)
(* The code is asynchronous JavaScript.  Every async function is a frame   *)
(* on the stack of the task that called it; one action of the model is the *)
(* code a task runs between two awaits.  A call runs the callee's first    *)
(* segment without giving up the event loop (cur = the task), an await of  *)
(* a timer or of I/O gives it up (cur = NoTask), and a callee's return     *)
(* resumes the awaiting caller in the same turn (cur = the task).          *)
(***************************************************************************)
EXTENDS Integers, Sequences, FiniteSets, TLC

\* ---------------------------------------------------------------- bounds
\* top-level operations (invoke, connect, health tick) one caller starts in a run
MaxOps == 1
\* connect calls the concurrent callers start in a run
MaxConnects == 2

\* ------------------------------------------------------ program constants
maxReconnectAttempts == 5
maxConsecutiveHealthCheckFailures == 2
maxConnectionRetries == 3

Tasks == {"t1", "t2"}
NoTask == "none"

\* ------------------------------------------------------------------ errors
\* An error is the text of its message.  ErrTokens gives the patterns of the
\* code's pattern lists that occur in the lower-cased message.
NoErr == "none"
\* (the code's Chinese messages and patterns are written here in ASCII: "zh:...")
ErrNotConnected == "zh:MCP service not connected"
ErrConnectTimeout == "zh:MCP connect timed out"
ErrWaitTimeout == "zh:timed out waiting for reconnection"
ErrBrowserConnect == "zh:MCP service connect failed"
ErrSpawn == "Connection closed"
RemoteErrors == {"connection reset", "socket hang up", "element not found"}
ConnectErrors == {ErrConnectTimeout, ErrSpawn}

ErrTokens(e) ==
    CASE e = ErrNotConnected -> {"zh:not connected"}
      [] e = ErrConnectTimeout -> {"zh:timed out"}
      [] e = ErrWaitTimeout -> {"zh:timed out"}
      [] e = ErrBrowserConnect -> {}
      [] e = ErrSpawn -> {"connection", "connect", "closed"}
      [] e = "connection reset" -> {"connection", "connect", "reset"}
      [] e = "socket hang up" -> {"socket"}
      [] e = "element not found" -> {}
      [] OTHER -> {}

\* MCPService.isConnectionError
isConnectionError(e) ==
    /\ e # NoErr
    /\ ErrTokens(e) \cap {"connection", "connect", "network", "timeout", "refused",
                          "reset", "closed", "disconnected", "unreachable"} # {}

\* BrowserService.isConnectionError
browserIsConnectionError(e) ==
    /\ e # NoErr
    /\ ErrTokens(e) \cap {"connection", "disconnect", "timeout", "econnreset", "epipe",
                          "socket", "transport", "zh:not connected", "not connected"} # {}

VARIABLES
    \* MCPService fields
    client,                \* this.client: 0 = null, else the id of the client
    transport,             \* this.transport: 0 = null, else the id of the transport
    isConnected,
    reconnectAttempts,
    isReconnecting,
    lastConnectionTime,    \* 0 = never connected, 1 = some instant
    healthCheckInterval,   \* TRUE = the interval timer is armed
    consecutiveHealthCheckFailures,
    totalConnections, successfulConnections, failedConnections,
    \* BrowserService fields
    connectionRetryCount,
    browserLastConnectionTime,  \* 0 or 1, as lastConnectionTime
    keepAliveInterval,
    attemptRecent,         \* BrowserService.connect began an attempt less than
                           \* connectionCooldown (5 s) ago
    \* ConnectionMonitor fields
    monitorInterval,       \* TRUE = the monitoring timer is armed (isMonitoring)
    \* the runtime
    open,                  \* ids of the transports whose subprocess is alive
    spawned,               \* transports created so far; the next id is spawned + 1
    stack,                 \* per task: the frames of its pending async calls
    ret,                   \* per task: how its last callee completed
    cur,                   \* the task that holds the event loop, or NoTask
    closeMayFail,          \* whether close() of a client or transport may throw
    \* observation
    ops,                   \* top-level operations started
    inv,                   \* per task: its current operation, and the state it began in
    hist,                  \* per task: what the retry of its last callTool threw
    failed,                \* handleReconnectionFailure has run: "manual intervention"
    calc                   \* the function under evaluation, its inputs and its result

mcpVars == <<client, transport, isConnected, reconnectAttempts, isReconnecting,
             lastConnectionTime, healthCheckInterval, consecutiveHealthCheckFailures,
             totalConnections, successfulConnections, failedConnections>>
browserVars == <<connectionRetryCount, browserLastConnectionTime, keepAliveInterval,
                 attemptRecent>>
otherVars == <<monitorInterval, calc>>
obsVars == <<ops, inv, hist, failed>>
vars == <<mcpVars, browserVars, open, spawned, stack, ret, cur, closeMayFail, otherVars, obsVars>>

\* ------------------------------------------------------------------ frames
NewFrame(fn) == [fn |-> fn, pc |-> "start", e |-> NoErr, id |-> 0, b |-> FALSE]
NoRet == [kind |-> "none", e |-> NoErr]
Ok == [kind |-> "ok", e |-> NoErr]
Throw(e) == [kind |-> "err", e |-> e]
\* a function returns the boolean b
Value(b) == [kind |-> "ok", e |-> IF b THEN "true" ELSE "false"]

Idle(t) == stack[t] = <<>>
Top(t) == stack[t][Len(stack[t])]
\* task t is about to run the segment of fn that starts at pc: the first
\* segment of a function runs within its call, the segment after an await
\* when nothing else is running, or at once when the awaited function has
\* just returned
At(t, fn, pc) ==
    /\ ~Idle(t)
    /\ Top(t).fn = fn
    /\ Top(t).pc = pc
    /\ \/ cur = t
       \/ pc # "start" /\ cur = NoTask

\* the frame becomes f and the task awaits (a timer, I/O, a microtask)
Await(t, f) ==
    /\ stack' = [stack EXCEPT ![t] = [@ EXCEPT ![Len(@)] = f]]
    /\ ret' = [ret EXCEPT ![t] = NoRet]
    /\ cur' = NoTask
\* the frame becomes f and the task calls fn, whose first segment runs at once
Call(t, f, fn) ==
    /\ stack' = [stack EXCEPT ![t] = Append([@ EXCEPT ![Len(@)] = f], NewFrame(fn))]
    /\ ret' = [ret EXCEPT ![t] = NoRet]
    /\ cur' = t
\* the function of the top frame completes with r; its caller, awaiting it,
\* resumes in the same turn of the event loop, before any timer or I/O event
Return(t, r) ==
    /\ stack' = [stack EXCEPT ![t] = SubSeq(@, 1, Len(@) - 1)]
    /\ ret' = [ret EXCEPT ![t] = r]
    /\ cur' = IF Len(stack[t]) > 1 THEN t ELSE NoTask

Pc(t, pc) == [Top(t) EXCEPT !.pc = pc]

\* MCPService.isConnectedToMCP
isConnectedToMCP == isConnected /\ client # 0

\* ------------------------------------------------------------ observation
\* op: the operation; conn0, client0, spawned0, total0, succ0, att0: the state it
\* began in; solo: no other task has been active during it; envOk: the environment
\* has not failed it (no failed spawn, request, close or check of resources);
\* seqOk: the same, since its last reconnect sequence began; issued: remote
\* tools/call requests sent; recs: reconnect sequences begun.
\* the fields and timers of the services, and the live subprocesses
Snapshot ==
    [mcp |-> mcpVars,
     browser |-> <<connectionRetryCount, browserLastConnectionTime, keepAliveInterval>>,
     open |-> open]
NewInv(op, t) ==
    [op |-> op, conn0 |-> isConnectedToMCP, client0 |-> client, spawned0 |-> spawned,
     total0 |-> totalConnections, succ0 |-> successfulConnections,
     att0 |-> reconnectAttempts, s0 |-> Snapshot,
     solo |-> \A u \in Tasks \ {t} : Idle(u),
     envOk |-> TRUE, seqOk |-> TRUE, issued |-> 0, recs |-> 0]
EnvFailed(t) == [inv EXCEPT ![t].envOk = FALSE, ![t].seqOk = FALSE]

\* ============================================================ MCPService
\* the catch block of initialize without failedConnections++
InitializeCatch_FailureUncounted(t, e, envFail) ==
    /\ totalConnections' = totalConnections + 1
    /\ failedConnections' = failedConnections
    /\ inv' = IF envFail THEN EnvFailed(t) ELSE inv
    /\ IF reconnectAttempts < maxReconnectAttempts
         THEN Call(t, [Top(t) EXCEPT !.pc = "aw_rec", !.e = e], "attemptReconnect")
         ELSE Return(t, Throw(e))

\* the catch block of initialize, entered with error e, which the frame keeps
\* while it awaits attemptReconnect
InitializeCatch(t, e, envFail) ==
    /\ totalConnections' = totalConnections + 1
    /\ failedConnections' = failedConnections + 1
    /\ inv' = IF envFail THEN EnvFailed(t) ELSE inv
    /\ IF reconnectAttempts < maxReconnectAttempts
         THEN Call(t, [Top(t) EXCEPT !.pc = "aw_rec", !.e = e], "attemptReconnect")
         ELSE Return(t, Throw(e))

\* initialize without its already-connected test
InitializeStart_NoConnectedTest(t) ==
    /\ At(t, "initialize", "start")
    /\ IF isReconnecting THEN Call(t, Pc(t, "aw_wait"), "waitForReconnection")
       ELSE IF client # 0 \/ transport # 0 THEN Call(t, Pc(t, "aw_warm"), "disconnect")
       ELSE Await(t, Pc(t, "aw_warm"))
    /\ UNCHANGED <<mcpVars, browserVars, open, spawned, closeMayFail, otherVars, obsVars>>

InitializeStart(t) ==
    /\ At(t, "initialize", "start")
    /\ IF isConnected /\ client # 0 THEN Return(t, Ok)
       ELSE IF isReconnecting THEN Call(t, Pc(t, "aw_wait"), "waitForReconnection")
       ELSE IF client # 0 \/ transport # 0 THEN Call(t, Pc(t, "aw_warm"), "disconnect")
       ELSE Await(t, Pc(t, "aw_warm"))
    /\ UNCHANGED <<mcpVars, browserVars, open, spawned, closeMayFail, otherVars, obsVars>>

InitializeAfterWait(t) ==
    /\ At(t, "initialize", "aw_wait")
    /\ IF ret[t].kind = "ok"
         THEN /\ Return(t, Ok)
              /\ UNCHANGED <<totalConnections, failedConnections, inv>>
         ELSE InitializeCatch(t, ret[t].e, FALSE)
    /\ UNCHANGED <<client, transport, isConnected, reconnectAttempts, isReconnecting,
                   lastConnectionTime, healthCheckInterval,
                   consecutiveHealthCheckFailures, successfulConnections,
                   browserVars, open, spawned, closeMayFail, otherVars, ops, hist, failed>>

\* new Client, new StdioClientTransport, client.connect(transport) raced with a timer
InitializeCreate(t) ==
    /\ At(t, "initialize", "aw_warm")
    /\ client' = spawned + 1
    /\ transport' = spawned + 1
    /\ spawned' = spawned + 1
    /\ open' = open \cup {spawned + 1}
    /\ Await(t, [Top(t) EXCEPT !.pc = "aw_connect", !.id = spawned + 1])
    /\ UNCHANGED <<isConnected, reconnectAttempts, isReconnecting, lastConnectionTime,
                   healthCheckInterval, consecutiveHealthCheckFailures,
                   totalConnections, successfulConnections, failedConnections,
                   browserVars, closeMayFail, otherVars, obsVars>>

\* initialize that forgets to raise isConnected once the client has connected
InitializeConnected_FlagNotRaised(t) ==
    /\ At(t, "initialize", "aw_connect")
    /\ Top(t).id \in open
    /\ reconnectAttempts' = 0
    /\ lastConnectionTime' = 1
    /\ totalConnections' = totalConnections + 1
    /\ successfulConnections' = successfulConnections + 1
    /\ Call(t, Pc(t, "aw_probe"), "listTools")
    /\ UNCHANGED <<client, transport, isConnected, isReconnecting, healthCheckInterval,
                   consecutiveHealthCheckFailures, failedConnections,
                   browserVars, open, spawned, closeMayFail, otherVars, obsVars>>

InitializeConnected(t) ==
    /\ At(t, "initialize", "aw_connect")
    /\ Top(t).id \in open
    /\ isConnected' = TRUE
    /\ reconnectAttempts' = 0
    /\ lastConnectionTime' = 1
    /\ totalConnections' = totalConnections + 1
    /\ successfulConnections' = successfulConnections + 1
    /\ Call(t, Pc(t, "aw_probe"), "listTools")
    /\ UNCHANGED <<client, transport, isReconnecting, healthCheckInterval,
                   consecutiveHealthCheckFailures, failedConnections,
                   browserVars, open, spawned, closeMayFail, otherVars, obsVars>>

InitializeConnectFailed(t) ==
    /\ At(t, "initialize", "aw_connect")
    /\ \E e \in ConnectErrors :
         /\ open' = IF e = ErrSpawn THEN open \ {Top(t).id} ELSE open
         /\ InitializeCatch(t, e, TRUE)
    /\ UNCHANGED <<client, transport, isConnected, reconnectAttempts, isReconnecting,
                   lastConnectionTime, healthCheckInterval,
                   consecutiveHealthCheckFailures, successfulConnections,
                   browserVars, spawned, closeMayFail, otherVars, ops, hist, failed>>

\* initialize whose catch of the probe's error rethrows it
InitializeAfterProbe_Rethrows(t) ==
    /\ At(t, "initialize", "aw_probe")
    /\ healthCheckInterval' = IF ret[t].kind = "ok" THEN TRUE ELSE healthCheckInterval
    /\ Return(t, IF ret[t].kind = "ok" THEN Ok ELSE ret[t])
    /\ UNCHANGED <<client, transport, isConnected, reconnectAttempts, isReconnecting,
                   lastConnectionTime, consecutiveHealthCheckFailures,
                   totalConnections, successfulConnections, failedConnections,
                   browserVars, open, spawned, closeMayFail, otherVars, obsVars>>

\* the liveness probe has completed: startHealthCheck on success, a warning otherwise
InitializeAfterProbe(t) ==
    /\ At(t, "initialize", "aw_probe")
    /\ healthCheckInterval' = IF ret[t].kind = "ok" THEN TRUE ELSE healthCheckInterval
    /\ Return(t, Ok)
    /\ UNCHANGED <<client, transport, isConnected, reconnectAttempts, isReconnecting,
                   lastConnectionTime, consecutiveHealthCheckFailures,
                   totalConnections, successfulConnections, failedConnections,
                   browserVars, open, spawned, closeMayFail, otherVars, obsVars>>

InitializeAfterReconnect(t) ==
    /\ At(t, "initialize", "aw_rec")
    /\ Return(t, Ok)
    /\ UNCHANGED <<mcpVars, browserVars, open, spawned, closeMayFail, otherVars, obsVars>>

\* ------------------------------------------------- waitForReconnection
WaitForReconnectionStart(t) ==
    /\ At(t, "waitForReconnection", "start")
    /\ IF isReconnecting THEN Await(t, Pc(t, "polling")) ELSE Return(t, Ok)
    /\ UNCHANGED <<mcpVars, browserVars, open, spawned, closeMayFail, otherVars, obsVars>>

\* a wake-up of the 500 ms poll that ends the loop: the flag is clear, or 30 s are over
WaitForReconnectionPoll(t) ==
    /\ At(t, "waitForReconnection", "polling")
    /\ IF isReconnecting THEN Return(t, Throw(ErrWaitTimeout)) ELSE Return(t, Ok)
    /\ UNCHANGED <<mcpVars, browserVars, open, spawned, closeMayFail, otherVars, obsVars>>

\* ----------------------------------------------------- attemptReconnect
\* MCPService.performPreConnectionCheck: memory, stability, reconnect frequency
performPreConnectionCheck(memoryHigh, recentlyConnected) ==
    IF memoryHigh THEN FALSE
    ELSE IF recentlyConnected THEN FALSE
    ELSE IF reconnectAttempts > 3 THEN FALSE
    ELSE TRUE

\* the catch and finally blocks of attemptReconnect
AttemptReconnectCatch(t) ==
    IF reconnectAttempts >= maxReconnectAttempts
      THEN /\ Call(t, Pc(t, "aw_hrf"), "handleReconnectionFailure")
           /\ UNCHANGED isReconnecting
      ELSE /\ isReconnecting' = FALSE
           /\ Return(t, Ok)

AttemptReconnectStart(t) ==
    /\ At(t, "attemptReconnect", "start")
    /\ IF isReconnecting
         THEN /\ Return(t, Ok)
              /\ UNCHANGED <<isReconnecting, reconnectAttempts, inv>>
         ELSE /\ isReconnecting' = TRUE
              /\ reconnectAttempts' = reconnectAttempts + 1
              /\ inv' = [inv EXCEPT ![t].recs = @ + 1, ![t].seqOk = TRUE]
              /\ Await(t, Pc(t, "aw_delay"))
    /\ UNCHANGED <<client, transport, isConnected, lastConnectionTime,
                   healthCheckInterval, consecutiveHealthCheckFailures,
                   totalConnections, successfulConnections, failedConnections,
                   browserVars, open, spawned, closeMayFail, otherVars, ops, hist, failed>>

\* the delay is over: the pre-connection check is evaluated
AttemptReconnectPreCheck(t) ==
    /\ At(t, "attemptReconnect", "aw_delay")
    /\ \E memoryHigh \in BOOLEAN :
       \E recentlyConnected \in (IF lastConnectionTime = 0 THEN {FALSE} ELSE BOOLEAN) :
         /\ Await(t, [Top(t) EXCEPT !.pc = "aw_pre",
                        !.b = performPreConnectionCheck(memoryHigh, recentlyConnected)])
         /\ inv' = IF memoryHigh \/ recentlyConnected THEN EnvFailed(t) ELSE inv
    /\ UNCHANGED <<mcpVars, browserVars, open, spawned, closeMayFail, otherVars, ops, hist, failed>>

AttemptReconnectAfterPreCheck(t) ==
    /\ At(t, "attemptReconnect", "aw_pre")
    /\ IF Top(t).b
         THEN /\ Call(t, Pc(t, "aw_fd"), "forceDisconnect")
              /\ UNCHANGED isReconnecting
         ELSE AttemptReconnectCatch(t)
    /\ UNCHANGED <<client, transport, isConnected, reconnectAttempts, lastConnectionTime,
                   healthCheckInterval, consecutiveHealthCheckFailures,
                   totalConnections, successfulConnections, failedConnections,
                   browserVars, open, spawned, closeMayFail, otherVars, obsVars>>

AttemptReconnectAfterForceDisconnect(t) ==
    /\ At(t, "attemptReconnect", "aw_fd")
    /\ Call(t, Pc(t, "aw_init"), "initialize")
    /\ UNCHANGED <<mcpVars, browserVars, open, spawned, closeMayFail, otherVars, obsVars>>

\* initialize has completed: success only if isConnected, then validateReconnection
AttemptReconnectAfterInitialize(t) ==
    /\ At(t, "attemptReconnect", "aw_init")
    /\ IF ret[t].kind = "ok" /\ isConnected
         THEN /\ reconnectAttempts' = 0
              /\ consecutiveHealthCheckFailures' = 0
              /\ Await(t, [Top(t) EXCEPT !.pc = "aw_valid", !.b = isConnectedToMCP])
              /\ UNCHANGED isReconnecting
         ELSE /\ AttemptReconnectCatch(t)
              /\ UNCHANGED <<reconnectAttempts, consecutiveHealthCheckFailures>>
    /\ UNCHANGED <<client, transport, isConnected, lastConnectionTime,
                   healthCheckInterval,
                   totalConnections, successfulConnections, failedConnections,
                   browserVars, open, spawned, closeMayFail, otherVars, obsVars>>

AttemptReconnectAfterValidate(t) ==
    /\ At(t, "attemptReconnect", "aw_valid")
    /\ IF Top(t).b
         THEN /\ isReconnecting' = FALSE
              /\ Return(t, Ok)
         ELSE AttemptReconnectCatch(t)
    /\ UNCHANGED <<client, transport, isConnected, reconnectAttempts, lastConnectionTime,
                   healthCheckInterval, consecutiveHealthCheckFailures,
                   totalConnections, successfulConnections, failedConnections,
                   browserVars, open, spawned, closeMayFail, otherVars, obsVars>>

\* handleReconnectionFailure has completed: the finally block
AttemptReconnectAfterFailure(t) ==
    /\ At(t, "attemptReconnect", "aw_hrf")
    /\ isReconnecting' = FALSE
    /\ Return(t, Ok)
    /\ UNCHANGED <<client, transport, isConnected, reconnectAttempts, lastConnectionTime,
                   healthCheckInterval, consecutiveHealthCheckFailures,
                   totalConnections, successfulConnections, failedConnections,
                   browserVars, open, spawned, closeMayFail, otherVars, obsVars>>

\* -------------------------------------------- handleReconnectionFailure
HandleReconnectionFailureStart(t) ==
    /\ At(t, "handleReconnectionFailure", "start")
    /\ healthCheckInterval' = FALSE
    /\ Call(t, Pc(t, "aw_fd"), "forceDisconnect")
    /\ UNCHANGED <<client, transport, isConnected, reconnectAttempts, isReconnecting,
                   lastConnectionTime, consecutiveHealthCheckFailures,
                   totalConnections, successfulConnections, failedConnections,
                   browserVars, open, spawned, closeMayFail, otherVars, obsVars>>

\* handleReconnectionFailure that leaves the attempt counter as it is
HandleReconnectionFailureReset_KeepsCount(t) ==
    /\ At(t, "handleReconnectionFailure", "aw_fd")
    /\ isConnected' = FALSE
    /\ isReconnecting' = FALSE
    /\ UNCHANGED reconnectAttempts
    /\ failed' = TRUE
    /\ Await(t, Pc(t, "aw_analyze"))
    /\ UNCHANGED <<client, transport, lastConnectionTime, healthCheckInterval,
                   consecutiveHealthCheckFailures,
                   totalConnections, successfulConnections, failedConnections,
                   browserVars, open, spawned, closeMayFail, otherVars, ops, inv, hist>>

HandleReconnectionFailureReset(t) ==
    /\ At(t, "handleReconnectionFailure", "aw_fd")
    /\ isConnected' = FALSE
    /\ isReconnecting' = FALSE
    /\ reconnectAttempts' = 0
    /\ failed' = TRUE
    /\ Await(t, Pc(t, "aw_analyze"))
    /\ UNCHANGED <<client, transport, lastConnectionTime, healthCheckInterval,
                   consecutiveHealthCheckFailures,
                   totalConnections, successfulConnections, failedConnections,
                   browserVars, open, spawned, closeMayFail, otherVars, ops, inv, hist>>

HandleReconnectionFailureDone(t) ==
    /\ At(t, "handleReconnectionFailure", "aw_analyze")
    /\ Return(t, Ok)
    /\ UNCHANGED <<mcpVars, browserVars, open, spawned, closeMayFail, otherVars, obsVars>>

\* ------------------------------------------- forceDisconnect, disconnect
\* Both set isConnected = false and stop the health check, then close the client
\* and the transport.  forceDisconnect swallows a failing close and goes on;
\* disconnect leaves through its outer catch at the first failing close.
CloseStart(t, fn) ==
    /\ At(t, fn, "start")
    /\ isConnected' = FALSE
    /\ healthCheckInterval' = FALSE
    /\ IF client # 0
         THEN Await(t, [Top(t) EXCEPT !.pc = "aw_client_close", !.id = client])
         ELSE IF transport # 0
           THEN Await(t, [Top(t) EXCEPT !.pc = "aw_transport_close", !.id = transport])
           ELSE Return(t, Ok)
    /\ UNCHANGED <<client, transport, reconnectAttempts, isReconnecting,
                   lastConnectionTime, consecutiveHealthCheckFailures,
                   totalConnections, successfulConnections, failedConnections,
                   browserVars, open, spawned, closeMayFail, otherVars, obsVars>>

\* client.close() has completed (closed = it did not throw)
CloseAfterClient(t, fn, closed) ==
    /\ At(t, fn, "aw_client_close")
    /\ open' = IF closed THEN open \ {Top(t).id} ELSE open
    /\ IF closed \/ fn = "forceDisconnect"
         THEN /\ client' = 0
              /\ IF transport # 0
                   THEN Await(t, [Top(t) EXCEPT !.pc = "aw_transport_close",
                                                 !.id = transport])
                   ELSE Return(t, Ok)
         ELSE /\ Return(t, Ok)
              /\ UNCHANGED client
    /\ inv' = IF closed THEN inv ELSE EnvFailed(t)
    /\ UNCHANGED <<transport, isConnected, reconnectAttempts, isReconnecting,
                   lastConnectionTime, healthCheckInterval,
                   consecutiveHealthCheckFailures,
                   totalConnections, successfulConnections, failedConnections,
                   browserVars, spawned, closeMayFail, otherVars, ops, hist, failed>>

\* transport.close() has completed
CloseAfterTransport(t, fn, closed) ==
    /\ At(t, fn, "aw_transport_close")
    /\ open' = IF closed THEN open \ {Top(t).id} ELSE open
    /\ transport' = IF closed \/ fn = "forceDisconnect" THEN 0 ELSE transport
    /\ Return(t, Ok)
    /\ inv' = IF closed THEN inv ELSE EnvFailed(t)
    /\ UNCHANGED <<client, isConnected, reconnectAttempts, isReconnecting,
                   lastConnectionTime, healthCheckInterval,
                   consecutiveHealthCheckFailures,
                   totalConnections, successfulConnections, failedConnections,
                   browserVars, spawned, closeMayFail, otherVars, ops, hist, failed>>

\* TRUE: close() returns; FALSE: it throws
CloseOutcomes == IF closeMayFail THEN BOOLEAN ELSE {TRUE}

ForceDisconnectStart(t) == CloseStart(t, "forceDisconnect")
ForceDisconnectAfterClient(t) ==
    \E closed \in CloseOutcomes : CloseAfterClient(t, "forceDisconnect", closed)
ForceDisconnectAfterTransport(t) ==
    \E closed \in CloseOutcomes : CloseAfterTransport(t, "forceDisconnect", closed)
DisconnectStart(t) == CloseStart(t, "disconnect")
DisconnectAfterClient(t) ==
    \E closed \in CloseOutcomes : CloseAfterClient(t, "disconnect", closed)
DisconnectAfterTransport(t) ==
    \E closed \in CloseOutcomes : CloseAfterTransport(t, "disconnect", closed)

\* -------------------------------------------------- callTool, listTools
\* Both issue one remote request, and on a connection error call
\* attemptReconnect and retry once; what the retry throws is logged and the
\* first error is rethrown.  callTool records its errors in hist.
RemoteCatch(t, fn, e) ==
    IF isConnectionError(e)
      THEN Call(t, [Top(t) EXCEPT !.pc = "aw_rec", !.e = e], "attemptReconnect")
      ELSE Return(t, Throw(e))

Issued(t, fn) == [inv EXCEPT ![t].issued = IF fn = "callTool" THEN @ + 1 ELSE @]

\* callTool and listTools with the connection test inverted
RemoteStart_TestInverted(t, fn) ==
    /\ At(t, fn, "start")
    /\ IF client = 0 \/ isConnected
         THEN /\ RemoteCatch(t, fn, ErrNotConnected)
              /\ UNCHANGED inv
         ELSE /\ Await(t, [Top(t) EXCEPT !.pc = "aw_call", !.id = client])
              /\ inv' = Issued(t, fn)
    /\ hist' = IF fn = "callTool" THEN [hist EXCEPT ![t] = NoErr] ELSE hist
    /\ UNCHANGED <<mcpVars, browserVars, open, spawned, closeMayFail, otherVars, ops, failed>>

RemoteStart(t, fn) ==
    /\ At(t, fn, "start")
    /\ IF client = 0 \/ ~isConnected
         THEN /\ RemoteCatch(t, fn, ErrNotConnected)
              /\ UNCHANGED inv
         ELSE /\ Await(t, [Top(t) EXCEPT !.pc = "aw_call", !.id = client])
              /\ inv' = Issued(t, fn)
    /\ hist' = IF fn = "callTool" THEN [hist EXCEPT ![t] = NoErr] ELSE hist
    /\ UNCHANGED <<mcpVars, browserVars, open, spawned, closeMayFail, otherVars, ops, failed>>

\* the request is answered; it can only be answered while the subprocess is alive
RemoteAnswered(t, fn, pc) ==
    /\ At(t, fn, pc)
    /\ Top(t).id \in open
    /\ Return(t, Ok)
    /\ UNCHANGED <<mcpVars, browserVars, open, spawned, closeMayFail, otherVars, obsVars>>

RemoteFailed(t, fn, e) ==
    /\ At(t, fn, "aw_call")
    /\ RemoteCatch(t, fn, e)
    /\ inv' = EnvFailed(t)
    /\ UNCHANGED <<mcpVars, browserVars, open, spawned, closeMayFail, otherVars, ops, hist, failed>>

RemoteAfterReconnect(t, fn) ==
    /\ At(t, fn, "aw_rec")
    /\ IF client # 0 /\ isConnected
         THEN /\ Await(t, [Top(t) EXCEPT !.pc = "aw_retry", !.id = client])
              /\ inv' = Issued(t, fn)
         ELSE /\ Return(t, Throw(Top(t).e))
              /\ UNCHANGED inv
    /\ UNCHANGED <<mcpVars, browserVars, open, spawned, closeMayFail, otherVars, ops, hist, failed>>

\* the error thrown once the retried request has failed with e2
RetryRethrown(first, e2) == first

RemoteRetryFailed(t, fn, e2) ==
    /\ At(t, fn, "aw_retry")
    /\ Return(t, Throw(RetryRethrown(Top(t).e, e2)))
    /\ hist' = IF fn = "callTool" THEN [hist EXCEPT ![t] = e2] ELSE hist
    /\ inv' = EnvFailed(t)
    /\ UNCHANGED <<mcpVars, browserVars, open, spawned, closeMayFail, otherVars, ops, failed>>

CallToolStart(t) == RemoteStart(t, "callTool")
CallToolAnswered(t) == RemoteAnswered(t, "callTool", "aw_call")
CallToolFailed(t) == \E e \in RemoteErrors : RemoteFailed(t, "callTool", e)
CallToolAfterReconnect(t) == RemoteAfterReconnect(t, "callTool")
CallToolRetryAnswered(t) == RemoteAnswered(t, "callTool", "aw_retry")
CallToolRetryFailed(t) == \E e \in RemoteErrors : RemoteRetryFailed(t, "callTool", e)

ListToolsStart(t) == RemoteStart(t, "listTools")
ListToolsAnswered(t) == RemoteAnswered(t, "listTools", "aw_call")
ListToolsFailed(t) == \E e \in RemoteErrors : RemoteFailed(t, "listTools", e)
ListToolsAfterReconnect(t) == RemoteAfterReconnect(t, "listTools")
ListToolsRetryAnswered(t) == RemoteAnswered(t, "listTools", "aw_retry")
ListToolsRetryFailed(t) == \E e \in RemoteErrors : RemoteRetryFailed(t, "listTools", e)

\* --------------------------------------------------- performHealthCheck
PerformHealthCheckStart(t) ==
    /\ At(t, "performHealthCheck", "start")
    /\ IF ~isConnected \/ client = 0
         THEN /\ consecutiveHealthCheckFailures' = consecutiveHealthCheckFailures + 1
              /\ Return(t, Ok)
         ELSE /\ Call(t, Pc(t, "aw_probe"), "listTools")
              /\ UNCHANGED consecutiveHealthCheckFailures
    /\ UNCHANGED <<client, transport, isConnected, reconnectAttempts, isReconnecting,
                   lastConnectionTime, healthCheckInterval,
                   totalConnections, successfulConnections, failedConnections,
                   browserVars, open, spawned, closeMayFail, otherVars, obsVars>>

\* whether a tick that has counted n consecutive failures asks for a reconnect
HealthCheckTriggers(n) == n >= maxConsecutiveHealthCheckFailures

\* a catch block that counts the failure and passes the error on
PerformHealthCheckAfterProbe_Rethrows(t) ==
    /\ At(t, "performHealthCheck", "aw_probe")
    /\ IF ret[t].kind = "ok"
         THEN /\ consecutiveHealthCheckFailures' = 0
              /\ Return(t, Ok)
         ELSE /\ consecutiveHealthCheckFailures' = consecutiveHealthCheckFailures + 1
              /\ IF HealthCheckTriggers(consecutiveHealthCheckFailures + 1)
                   THEN Call(t, Pc(t, "aw_rec"), "attemptReconnect")
                   ELSE Return(t, ret[t])
    /\ UNCHANGED <<client, transport, isConnected, reconnectAttempts, isReconnecting,
                   lastConnectionTime, healthCheckInterval,
                   totalConnections, successfulConnections, failedConnections,
                   browserVars, open, spawned, closeMayFail, otherVars, obsVars>>

PerformHealthCheckAfterProbe(t) ==
    /\ At(t, "performHealthCheck", "aw_probe")
    /\ IF ret[t].kind = "ok"
         THEN /\ consecutiveHealthCheckFailures' = 0
              /\ Return(t, Ok)
         ELSE /\ consecutiveHealthCheckFailures' = consecutiveHealthCheckFailures + 1
              /\ IF HealthCheckTriggers(consecutiveHealthCheckFailures + 1)
                   THEN Call(t, Pc(t, "aw_rec"), "attemptReconnect")
                   ELSE Return(t, Ok)
    /\ UNCHANGED <<client, transport, isConnected, reconnectAttempts, isReconnecting,
                   lastConnectionTime, healthCheckInterval,
                   totalConnections, successfulConnections, failedConnections,
                   browserVars, open, spawned, closeMayFail, otherVars, obsVars>>

\* attemptReconnect is awaited inside the catch block: an error it raised would
\* leave performHealthCheck
PerformHealthCheckAfterReconnect(t) ==
    /\ At(t, "performHealthCheck", "aw_rec")
    /\ Return(t, IF ret[t].kind = "err" THEN ret[t] ELSE Ok)
    /\ UNCHANGED <<mcpVars, browserVars, open, spawned, closeMayFail, otherVars, obsVars>>

\* ========================================================= BrowserService
\* ------------------------------------------------ BrowserService.connect
BrowserConnectStart(t) ==
    /\ At(t, "browserConnect", "start")
    /\ \E cooling \in (IF browserLastConnectionTime = 0 \/ ~attemptRecent
                          THEN {FALSE} ELSE BOOLEAN) :
         IF cooling
           THEN /\ Await(t, Pc(t, "aw_cooldown"))
                /\ UNCHANGED attemptRecent
           ELSE /\ Call(t, Pc(t, "aw_init"), "initialize")
                /\ attemptRecent' = TRUE
    /\ UNCHANGED <<mcpVars, connectionRetryCount, browserLastConnectionTime,
                   keepAliveInterval, open, spawned, closeMayFail, otherVars, obsVars>>

BrowserConnectAfterCooldown(t) ==
    /\ At(t, "browserConnect", "aw_cooldown")
    /\ Call(t, Pc(t, "aw_init"), "initialize")
    /\ attemptRecent' = TRUE
    /\ UNCHANGED <<mcpVars, connectionRetryCount, browserLastConnectionTime,
                   keepAliveInterval, open, spawned, closeMayFail, otherVars, obsVars>>

BrowserConnectAfterInitialize(t) ==
    /\ At(t, "browserConnect", "aw_init")
    /\ IF ret[t].kind = "ok"
         THEN /\ browserLastConnectionTime' = 1
              /\ connectionRetryCount' = 0
              /\ keepAliveInterval' = TRUE
              /\ Return(t, Ok)
         ELSE /\ connectionRetryCount' = connectionRetryCount + 1
              /\ IF connectionRetryCount + 1 < maxConnectionRetries
                   THEN Await(t, [Top(t) EXCEPT !.pc = "aw_retry_delay", !.e = ret[t].e])
                   ELSE Return(t, Throw(ret[t].e))
              /\ UNCHANGED <<browserLastConnectionTime, keepAliveInterval>>
    /\ UNCHANGED <<mcpVars, attemptRecent, open, spawned, closeMayFail, otherVars, obsVars>>

BrowserConnectRetry(t) ==
    /\ At(t, "browserConnect", "aw_retry_delay")
    /\ Call(t, Pc(t, "aw_recurse"), "browserConnect")
    /\ UNCHANGED <<mcpVars, browserVars, open, spawned, closeMayFail, otherVars, obsVars>>

BrowserConnectAfterRetry(t) ==
    /\ At(t, "browserConnect", "aw_recurse")
    /\ Return(t, ret[t])
    /\ UNCHANGED <<mcpVars, browserVars, open, spawned, closeMayFail, otherVars, obsVars>>

\* --------------------------------------------- BrowserService.disconnect
BrowserDisconnectStart(t) ==
    /\ At(t, "browserDisconnect", "start")
    /\ keepAliveInterval' = FALSE
    /\ Call(t, Pc(t, "aw_mcp"), "disconnect")
    /\ UNCHANGED <<mcpVars, connectionRetryCount, browserLastConnectionTime,
                   attemptRecent, open, spawned, closeMayFail, otherVars, obsVars>>

\* mcpService.disconnect has returned (it never throws): resetConnectionState
BrowserDisconnectAfterMcp(t) ==
    /\ At(t, "browserDisconnect", "aw_mcp")
    /\ connectionRetryCount' = 0
    /\ browserLastConnectionTime' = 0
    /\ keepAliveInterval' = FALSE
    /\ Return(t, Ok)
    /\ UNCHANGED <<mcpVars, attemptRecent, open, spawned, closeMayFail, otherVars, obsVars>>

\* ---------------------------------------------- BrowserService.reconnect
BrowserReconnectStart(t) ==
    /\ At(t, "browserReconnect", "start")
    /\ Call(t, Pc(t, "aw_disc"), "browserDisconnect")
    /\ UNCHANGED <<mcpVars, browserVars, open, spawned, closeMayFail, otherVars, obsVars>>

\* disconnect has returned: wait 1 s
BrowserReconnectAfterDisconnect(t) ==
    /\ At(t, "browserReconnect", "aw_disc")
    /\ Await(t, Pc(t, "aw_pause"))
    /\ UNCHANGED <<mcpVars, browserVars, open, spawned, closeMayFail, otherVars, obsVars>>

BrowserReconnectConnect(t) ==
    /\ At(t, "browserReconnect", "aw_pause")
    /\ Call(t, Pc(t, "aw_conn"), "browserConnect")
    /\ UNCHANGED <<mcpVars, browserVars, open, spawned, closeMayFail, otherVars, obsVars>>

\* connect has completed; its error, if any, is rethrown
BrowserReconnectAfterConnect(t) ==
    /\ At(t, "browserReconnect", "aw_conn")
    /\ Return(t, ret[t])
    /\ UNCHANGED <<mcpVars, browserVars, open, spawned, closeMayFail, otherVars, obsVars>>

\* -------------------------------------------- BrowserService.healthCheck
\* currentPageId is null in every state of this model (no tab is created), so
\* the third layer of the check is skipped.
BrowserHealthCheckStart(t) ==
    /\ At(t, "browserHealthCheck", "start")
    /\ IF ~isConnectedToMCP
         THEN Return(t, Value(FALSE))
         ELSE Call(t, Pc(t, "aw_tools"), "listTools")
    /\ UNCHANGED <<mcpVars, browserVars, open, spawned, closeMayFail, otherVars, obsVars>>

\* listTools has completed: a result object is truthy and has no length 0
BrowserHealthCheckAfterTools(t) ==
    /\ At(t, "browserHealthCheck", "aw_tools")
    /\ Return(t, Value(ret[t].kind = "ok"))
    /\ UNCHANGED <<mcpVars, browserVars, open, spawned, closeMayFail, otherVars, obsVars>>

\* ------------------- the interval callback of startPersistentConnectionManagement
\* Top(t).b: more than connectionIdleTimeout (5 min) has passed since
\* lastActivityTime
KeepAliveStart(t) ==
    /\ At(t, "keepAlive", "start")
    /\ IF Top(t).b
         THEN Call(t, Pc(t, "aw_cleanup"), "cleanupIdleConnections")
         ELSE Call(t, Pc(t, "aw_health"), "browserHealthCheck")
    /\ UNCHANGED <<mcpVars, browserVars, open, spawned, closeMayFail, otherVars, obsVars>>

\* BrowserService.cleanupIdleConnections: connectionPool is never added to, so
\* it is empty; the main connection is kept and lastActivityTime is set to now
CleanupIdleConnections(t) ==
    /\ At(t, "cleanupIdleConnections", "start")
    /\ Return(t, Ok)
    /\ UNCHANGED <<mcpVars, browserVars, open, spawned, closeMayFail, otherVars, obsVars>>

KeepAliveAfterCleanup(t) ==
    /\ At(t, "keepAlive", "aw_cleanup")
    /\ Return(t, Ok)
    /\ UNCHANGED <<mcpVars, browserVars, open, spawned, closeMayFail, otherVars, obsVars>>

KeepAliveAfterHealthCheck(t) ==
    /\ At(t, "keepAlive", "aw_health")
    /\ IF ret[t] = Value(TRUE)
         THEN Return(t, Ok)
         ELSE Call(t, Pc(t, "aw_rec"), "browserReconnect")
    /\ UNCHANGED <<mcpVars, browserVars, open, spawned, closeMayFail, otherVars, obsVars>>

\* reconnect has completed; the callback's catch logs what it threw
KeepAliveAfterReconnect(t) ==
    /\ At(t, "keepAlive", "aw_rec")
    /\ Return(t, Ok)
    /\ UNCHANGED <<mcpVars, browserVars, open, spawned, closeMayFail, otherVars, obsVars>>

\* =========================================== initializeServices, shutdownServices
InitializeServicesStart(t) ==
    /\ At(t, "initializeServices", "start")
    /\ Call(t, Pc(t, "aw_init"), "initialize")
    /\ UNCHANGED <<mcpVars, browserVars, open, spawned, closeMayFail, otherVars, obsVars>>

\* mcpService.initialize has completed: startMonitoring, or the error is rethrown
InitializeServicesAfterInitialize(t) ==
    /\ At(t, "initializeServices", "aw_init")
    /\ IF ret[t].kind = "ok"
         THEN /\ monitorInterval' = TRUE
              /\ Return(t, Ok)
         ELSE /\ Return(t, ret[t])
              /\ UNCHANGED monitorInterval
    /\ UNCHANGED <<mcpVars, browserVars, open, spawned, closeMayFail, calc, obsVars>>

\* stopMonitoring, webSocketService.close, then mcpService.disconnect
ShutdownServicesStart(t) ==
    /\ At(t, "shutdownServices", "start")
    /\ monitorInterval' = FALSE
    /\ Call(t, Pc(t, "aw_disc"), "disconnect")
    /\ UNCHANGED <<mcpVars, browserVars, open, spawned, closeMayFail, calc, obsVars>>

ShutdownServicesAfterDisconnect(t) ==
    /\ At(t, "shutdownServices", "aw_disc")
    /\ Return(t, Ok)
    /\ UNCHANGED <<mcpVars, browserVars, open, spawned, closeMayFail, otherVars, obsVars>>

\* ------------------------------------------------- ConnectionMonitor
\* MCPService.getConnectionQualityMetrics: the object it returns, with the
\* fields this model has state for (fastConnections, slowConnections, the
\* timestamps, connectionQuality and uptime are left out; no one below reads
\* them).  It has no field isHealthy and no field successRate.
getConnectionQualityMetrics ==
    [totalConnections |-> totalConnections,
     successfulConnections |-> successfulConnections,
     failedConnections |-> failedConnections,
     isConnected |-> isConnected,
     reconnectAttempts |-> reconnectAttempts,
     consecutiveHealthCheckFailures |-> consecutiveHealthCheckFailures]

\* ConnectionMonitor.shouldTriggerAutoRecovery; metrics.successRate < 70 is
\* false when the field is missing (undefined < 70)
shouldTriggerAutoRecovery(metrics) ==
    IF metrics.consecutiveHealthCheckFailures >= 2 THEN TRUE
    ELSE IF /\ "successRate" \in DOMAIN metrics
            /\ metrics.successRate < 70
            /\ metrics.totalConnections > 0
      THEN TRUE
      ELSE FALSE

\* performMonitoringCheck: the event is recorded and emitted, then
\* !metrics.isHealthy && shouldTriggerAutoRecovery(metrics) decides;
\* !metrics.isHealthy is true when the field is missing
PerformMonitoringCheckStart(t) ==
    /\ At(t, "performMonitoringCheck", "start")
    /\ LET metrics == getConnectionQualityMetrics
           notHealthy == IF "isHealthy" \in DOMAIN metrics THEN ~metrics.isHealthy
                         ELSE TRUE
       IN  IF notHealthy /\ shouldTriggerAutoRecovery(metrics)
             THEN Call(t, Pc(t, "aw_recovery"), "triggerAutoRecovery")
             ELSE Return(t, Ok)
    /\ UNCHANGED <<mcpVars, browserVars, open, spawned, closeMayFail, otherVars, obsVars>>

\* triggerAutoRecovery has returned (it catches whatever it meets)
PerformMonitoringCheckAfterRecovery(t) ==
    /\ At(t, "performMonitoringCheck", "aw_recovery")
    /\ Return(t, Ok)
    /\ UNCHANGED <<mcpVars, browserVars, open, spawned, closeMayFail, otherVars, obsVars>>

\* triggerAutoRecovery: disconnect, wait 2 s, initialize; errors are caught
TriggerAutoRecoveryStart(t) ==
    /\ At(t, "triggerAutoRecovery", "start")
    /\ Call(t, Pc(t, "aw_disc"), "disconnect")
    /\ UNCHANGED <<mcpVars, browserVars, open, spawned, closeMayFail, otherVars, obsVars>>

TriggerAutoRecoveryAfterDisconnect(t) ==
    /\ At(t, "triggerAutoRecovery", "aw_disc")
    /\ IF ret[t].kind = "ok" THEN Await(t, Pc(t, "aw_pause")) ELSE Return(t, Ok)
    /\ UNCHANGED <<mcpVars, browserVars, open, spawned, closeMayFail, otherVars, obsVars>>

TriggerAutoRecoveryAfterPause(t) ==
    /\ At(t, "triggerAutoRecovery", "aw_pause")
    /\ Call(t, Pc(t, "aw_init"), "initialize")
    /\ UNCHANGED <<mcpVars, browserVars, open, spawned, closeMayFail, otherVars, obsVars>>

TriggerAutoRecoveryAfterInitialize(t) ==
    /\ At(t, "triggerAutoRecovery", "aw_init")
    /\ Return(t, Ok)
    /\ UNCHANGED <<mcpVars, browserVars, open, spawned, closeMayFail, otherVars, obsVars>>

\* ----------------------------------------------- BrowserService.callTool
\* the catch block of BrowserService.callTool
BrowserCallToolCatch(t, e) ==
    IF browserIsConnectionError(e)
      THEN /\ connectionRetryCount' = 0          \* resetConnectionState
           /\ browserLastConnectionTime' = 0
           /\ Await(t, [Top(t) EXCEPT !.pc = "aw_pause", !.e = e])
      ELSE /\ Return(t, Throw(e))
           /\ UNCHANGED <<connectionRetryCount, browserLastConnectionTime>>

BrowserCallToolStart(t) ==
    /\ At(t, "browserCallTool", "start")
    /\ IF ~isConnectedToMCP
         THEN Call(t, Pc(t, "aw_connect"), "browserConnect")
         ELSE Call(t, Pc(t, "aw_call"), "callTool")
    /\ UNCHANGED <<mcpVars, browserVars, open, spawned, closeMayFail, otherVars, obsVars>>

BrowserCallToolAfterConnect(t) ==
    /\ At(t, "browserCallTool", "aw_connect")
    /\ IF ret[t].kind = "ok"
         THEN /\ Await(t, Pc(t, "aw_settle"))
              /\ UNCHANGED <<connectionRetryCount, browserLastConnectionTime>>
         ELSE BrowserCallToolCatch(t, ret[t].e)
    /\ UNCHANGED <<mcpVars, keepAliveInterval, attemptRecent, open, spawned, closeMayFail, otherVars, obsVars>>

\* 500 ms after connect: the second look at the connection state
BrowserCallToolAfterSettle(t) ==
    /\ At(t, "browserCallTool", "aw_settle")
    /\ IF ~isConnectedToMCP
         THEN BrowserCallToolCatch(t, ErrBrowserConnect)
         ELSE /\ Call(t, Pc(t, "aw_call"), "callTool")
              /\ UNCHANGED <<connectionRetryCount, browserLastConnectionTime>>
    /\ UNCHANGED <<mcpVars, keepAliveInterval, attemptRecent, open, spawned, closeMayFail, otherVars, obsVars>>

BrowserCallToolAfterCall(t) ==
    /\ At(t, "browserCallTool", "aw_call")
    /\ IF ret[t].kind = "ok"
         THEN /\ Return(t, Ok)
              /\ UNCHANGED <<connectionRetryCount, browserLastConnectionTime>>
         ELSE BrowserCallToolCatch(t, ret[t].e)
    /\ UNCHANGED <<mcpVars, keepAliveInterval, attemptRecent, open, spawned, closeMayFail, otherVars, obsVars>>

\* one second after resetConnectionState: connect again
BrowserCallToolReconnect(t) ==
    /\ At(t, "browserCallTool", "aw_pause")
    /\ Call(t, Pc(t, "aw_reconnect"), "browserConnect")
    /\ UNCHANGED <<mcpVars, browserVars, open, spawned, closeMayFail, otherVars, obsVars>>

BrowserCallToolAfterReconnect(t) ==
    /\ At(t, "browserCallTool", "aw_reconnect")
    /\ IF ret[t].kind = "ok"
         THEN Call(t, Pc(t, "aw_retry"), "callTool")
         ELSE Return(t, ret[t])
    /\ UNCHANGED <<mcpVars, browserVars, open, spawned, closeMayFail, otherVars, obsVars>>

BrowserCallToolAfterRetry(t) ==
    /\ At(t, "browserCallTool", "aw_retry")
    /\ Return(t, ret[t])
    /\ UNCHANGED <<mcpVars, browserVars, open, spawned, closeMayFail, otherVars, obsVars>>

\* ========================================================= pure functions
Min(a, b) == IF a <= b THEN a ELSE b

\* MCPService.calculateReconnectDelay without its ceiling
calculateReconnectDelay_NoCeiling(baseDelay, attempts, jitter) ==
    baseDelay * 2 ^ (attempts - 1) + jitter

\* MCPService.calculateReconnectDelay: baseDelay is this.reconnectDelay,
\* attempts is this.reconnectAttempts, jitter is Math.random() * 1000
calculateReconnectDelay(baseDelay, attempts, jitter) ==
    Min(baseDelay * 2 ^ (attempts - 1) + jitter, 30000)

\* values of Math.random() * 1000, in ms
Jitters == {0, 1, 500, 999}
\* values this.reconnectDelay takes: its initial 1000 doubled by failed
\* attempts up to 30000, raised by half by handleNetworkError up to 10000
ReconnectDelays == {1000, 1500, 2000, 3000, 4000, 8000, 10000, 16000, 30000}

\* attemptReconnect begins: the counter is incremented and the delay computed.
\* calc.plain is the delay with jitter 0, calc.prev that of the attempt before.
BackoffAttempt ==
    /\ calc.fn = "backoff" /\ calc.phase = "idle"
    /\ \E jitter \in Jitters :
         calc' = [calc EXCEPT
                    !.phase = "delayed",
                    !.attempts = @ + 1,
                    !.delay = calculateReconnectDelay(calc.reconnectDelay, calc.attempts + 1,
                                                      jitter),
                    !.plain = calculateReconnectDelay(calc.reconnectDelay, calc.attempts + 1,
                                                      0)]
    /\ UNCHANGED <<mcpVars, browserVars, monitorInterval, open, spawned, stack, ret, cur,
                   closeMayFail, ops, inv, hist, failed>>

\* the attempt fails: the catch block of attemptReconnect doubles reconnectDelay,
\* or, at maxReconnectAttempts, handleReconnectionFailure resets the counter
BackoffFailed ==
    /\ calc.fn = "backoff" /\ calc.phase = "delayed"
    /\ calc' = IF calc.attempts >= maxReconnectAttempts
                 THEN [calc EXCEPT !.phase = "idle", !.attempts = 0, !.prev = 0]
                 ELSE [calc EXCEPT !.phase = "idle", !.prev = calc.plain,
                                   !.reconnectDelay = Min(@ * 2, 30000)]
    /\ UNCHANGED <<mcpVars, browserVars, monitorInterval, open, spawned, stack, ret, cur,
                   closeMayFail, ops, inv, hist, failed>>

\* ------------------------------------------------ connection quality score
\* largest totalConnections the score is computed for
MaxTotal == 8

\* The counters <<totalConnections, successfulConnections, fastConnections>>,
\* up to totalConnections = 9, for which 100 * (0.7 * successRate + 0.3 *
\* fastConnectionRate) is half an integer and the double-precision value of
\* (successRate * 0.7 + fastConnectionRate * 0.3) * 100 lies below it, so
\* that Math.round gives the integer below (0.7 and 0.3 are not exact in
\* binary: 3/4 * 0.7 * 100 is 52.49999999999999).
RoundedBelowHalf ==
    {<<4, 3, 0>>, <<4, 4, 1>>, <<8, 3, 3>>, <<8, 6, 0>>, <<8, 7, 3>>, <<8, 8, 2>>}

\* MCPService.calculateConnectionQuality with Math.floor for Math.round
calculateConnectionQuality_Floor(total, successful, fast) ==
    IF total = 0 THEN 0
    ELSE (70 * successful + 30 * fast) \div total

\* MCPService.calculateConnectionQuality on the fields of
\* connectionQualityMetrics: Math.round of (successRate * 0.7 +
\* fastConnectionRate * 0.3) * 100, as an integer computation of
\* round((70 * successful + 30 * fast) / total), halves upwards, where total,
\* successful and fast are totalConnections, successfulConnections and
\* fastConnections
calculateConnectionQuality(total, successful, fast) ==
    IF total = 0 THEN 0
    ELSE LET weighted == 70 * successful + 30 * fast
             halfUp == (2 * weighted + total) \div (2 * total)
         IN  IF <<total, successful, fast>>
                  \in RoundedBelowHalf
               THEN halfUp - 1
               ELSE halfUp

\* the counters initialize keeps: every attempt adds 1 to totalConnections, a
\* successful one to successfulConnections, one under 2 s to fastConnections
QualityCounters ==
    {c \in [total : 0..MaxTotal, successful : 0..MaxTotal, fast : 0..MaxTotal] :
       c.fast <= c.successful /\ c.successful <= c.total}

\* getConnectionQualityMetrics reads the score of the current counters
QualityScore ==
    /\ calc.fn = "quality" /\ calc.phase = "counted"
    /\ calc' = [calc EXCEPT
                  !.phase = "scored",
                  !.score = calculateConnectionQuality(calc.total, calc.successful,
                                                       calc.fast)]
    /\ UNCHANGED <<mcpVars, browserVars, monitorInterval, open, spawned, stack, ret, cur,
                   closeMayFail, ops, inv, hist, failed>>

\* ============================================================ environment
\* task t starts a top-level operation: the first frame is fn
StartOpWith(t, op, frame) ==
    /\ Idle(t)
    /\ cur = NoTask
    /\ ops' = ops + 1
    /\ stack' = [stack EXCEPT ![t] = <<frame>>]
    /\ ret' = [ret EXCEPT ![t] = NoRet]
    /\ cur' = t
    /\ inv' = [u \in Tasks |->
                 IF u = t THEN NewInv(op, t)
                 ELSE IF Idle(u) THEN inv[u] ELSE [inv[u] EXCEPT !.solo = FALSE]]
    /\ hist' = [hist EXCEPT ![t] = NoErr]
    /\ UNCHANGED <<mcpVars, browserVars, open, spawned, closeMayFail, otherVars, failed>>

StartOp(t, op, fn) == StartOpWith(t, op, NewFrame(fn))

\* a caller invokes a browser tool through the gateway
Invoke(t) == ops < MaxOps /\ StartOp(t, "invoke", "browserCallTool")
\* a caller (start-up, the external monitor) asks MCPService to connect
Connect(t) == ops < MaxOps /\ StartOp(t, "connect", "initialize")
\* the interval timer of startHealthCheck fires
HealthCheckTick(t) ==
    ops < MaxOps /\ healthCheckInterval /\ StartOp(t, "tick", "performHealthCheck")
\* a caller (a task run) asks BrowserService to connect
BrowserConnect(t) == ops < MaxOps /\ StartOp(t, "bconnect", "browserConnect")
\* the interval timer of startPersistentConnectionManagement fires; idle: more
\* than connectionIdleTimeout has passed since the last activity
KeepAliveTick(t) ==
    /\ ops < MaxOps
    /\ keepAliveInterval
    /\ \E idle \in BOOLEAN :
         StartOpWith(t, IF idle THEN "sweep" ELSE "keepalive",
                     [NewFrame("keepAlive") EXCEPT !.b = idle])
\* the server starts and stops
InitializeServices(t) == ops < MaxOps /\ StartOp(t, "startup", "initializeServices")
ShutdownServices(t) == ops < MaxOps /\ StartOp(t, "shutdown", "shutdownServices")
\* connectionCooldown passes without BrowserService.connect beginning an attempt
CooldownElapses ==
    /\ cur = NoTask
    /\ attemptRecent
    /\ attemptRecent' = FALSE
    /\ UNCHANGED <<mcpVars, connectionRetryCount, browserLastConnectionTime,
                   keepAliveInterval, open, spawned, stack, ret, cur, closeMayFail,
                   otherVars, obsVars>>
\* one of several callers that ask MCPService to connect at the same time
ConcurrentConnect(t) == ops < MaxConnects /\ StartOp(t, "connect", "initialize")
\* the server starts, the health-check timer fires, the interval timer of
\* ConnectionMonitor.startMonitoring fires
MonitorOps(t) ==
    /\ ops < MaxConnects
    /\ \/ StartOp(t, "startup", "initializeServices")
       \/ healthCheckInterval /\ StartOp(t, "tick", "performHealthCheck")
       \/ monitorInterval /\ StartOp(t, "monitor", "performMonitoringCheck")
\* one of several callers that ask MCPService to disconnect
ConcurrentDisconnect(t) == ops < MaxConnects /\ StartOp(t, "disconnect", "disconnect")

\* the subprocess of the connected client dies: client.onclose
OnClose ==
    /\ cur = NoTask
    /\ isConnected
    /\ client \in open
    /\ open' = open \ {client}
    /\ isConnected' = FALSE
    /\ healthCheckInterval' = FALSE
    /\ inv' = [u \in Tasks |-> [inv[u] EXCEPT !.envOk = FALSE, !.seqOk = FALSE]]
    /\ UNCHANGED <<client, transport, reconnectAttempts, isReconnecting,
                   lastConnectionTime, consecutiveHealthCheckFailures,
                   totalConnections, successfulConnections, failedConnections,
                   browserVars, spawned, stack, ret, cur, closeMayFail, otherVars, ops, hist, failed>>

\* ========================================================== specification
NoInv == [op |-> "none", conn0 |-> FALSE, client0 |-> 0, spawned0 |-> 0, total0 |-> 0,
          succ0 |-> 0, att0 |-> 0, s0 |-> <<>>, solo |-> FALSE, envOk |-> TRUE, seqOk |-> TRUE,
          issued |-> 0, recs |-> 0]

\* no pure function is under evaluation
NoCalc == [fn |-> "none"]

\* Nothing is running; the services are in the state given by the arguments.
Quiescent ==
    /\ isReconnecting = FALSE
    /\ failedConnections = 0
    /\ connectionRetryCount = 0
    /\ stack = [t \in Tasks |-> <<>>]
    /\ ret = [t \in Tasks |-> NoRet]
    /\ cur = NoTask
    /\ closeMayFail = FALSE
    /\ ops = 0
    /\ inv = [t \in Tasks |-> NoInv]
    /\ hist = [t \in Tasks |-> NoErr]
    /\ failed = FALSE

\* the state of the services after construction
FreshServices ==
    /\ client = 0 /\ transport = 0
    /\ isConnected = FALSE
    /\ reconnectAttempts = 0
    /\ lastConnectionTime = 0
    /\ healthCheckInterval = FALSE
    /\ consecutiveHealthCheckFailures = 0
    /\ totalConnections = 0 /\ successfulConnections = 0
    /\ browserLastConnectionTime = 0
    /\ keepAliveInterval = FALSE
    /\ attemptRecent = FALSE
    /\ monitorInterval = FALSE
    /\ open = {}
    /\ spawned = 0
    /\ Quiescent

\* the state after construction
Fresh == FreshServices /\ calc = NoCalc

\* The state after BrowserService.connect has succeeded once, followed by
\* `attempts` reconnect sequences that the pre-connection check stopped (each
\* begun by a tool call that failed with a connection error) and by `misses`
\* health-check ticks whose probe failed with another error.
Connected(attempts, misses) ==
    /\ client = 1 /\ transport = 1
    /\ isConnected = TRUE
    /\ reconnectAttempts = attempts
    /\ lastConnectionTime = 1
    /\ healthCheckInterval = TRUE
    /\ consecutiveHealthCheckFailures = misses
    /\ totalConnections = 1 /\ successfulConnections = 1
    /\ browserLastConnectionTime = 1
    /\ keepAliveInterval = TRUE
    /\ attemptRecent \in BOOLEAN
    /\ monitorInterval = TRUE
    /\ open = {1}
    /\ spawned = 1
    /\ Quiescent
    /\ calc = NoCalc

\* The state after initializeServices: MCPService is connected and probed, the
\* connection monitor runs, BrowserService.connect has not been called yet.
Started ==
    /\ client = 1 /\ transport = 1
    /\ isConnected = TRUE
    /\ reconnectAttempts = 0
    /\ lastConnectionTime = 1
    /\ healthCheckInterval = TRUE
    /\ consecutiveHealthCheckFailures = 0
    /\ totalConnections = 1 /\ successfulConnections = 1
    /\ browserLastConnectionTime = 0
    /\ keepAliveInterval = FALSE
    /\ attemptRecent = FALSE
    /\ monitorInterval = TRUE
    /\ open = {1}
    /\ spawned = 1
    /\ Quiescent
    /\ calc = NoCalc

Init ==
    \/ Fresh
    \/ Started
    \/ \E attempts \in {0, maxReconnectAttempts - 1} :
       \E misses \in {0, maxConsecutiveHealthCheckFailures - 1} :
         Connected(attempts, misses)

InitializeStep(t) ==
    \/ InitializeStart(t) \/ InitializeAfterWait(t) \/ InitializeCreate(t)
    \/ InitializeConnected(t) \/ InitializeConnectFailed(t)
    \/ InitializeAfterProbe(t) \/ InitializeAfterReconnect(t)
    \/ WaitForReconnectionStart(t) \/ WaitForReconnectionPoll(t)

ReconnectStep(t) ==
    \/ AttemptReconnectStart(t) \/ AttemptReconnectPreCheck(t)
    \/ AttemptReconnectAfterPreCheck(t) \/ AttemptReconnectAfterForceDisconnect(t)
    \/ AttemptReconnectAfterInitialize(t)
    \/ ForceDisconnectStart(t) \/ ForceDisconnectAfterClient(t)
    \/ ForceDisconnectAfterTransport(t)

FailureStep(t) ==
    \/ AttemptReconnectAfterFailure(t)
    \/ HandleReconnectionFailureStart(t) \/ HandleReconnectionFailureReset(t)
    \/ HandleReconnectionFailureDone(t)

DisconnectStep(t) ==
    DisconnectStart(t) \/ DisconnectAfterClient(t) \/ DisconnectAfterTransport(t)

CallToolStep(t) ==
    \/ CallToolStart(t) \/ CallToolAnswered(t) \/ CallToolFailed(t)
    \/ CallToolAfterReconnect(t) \/ CallToolRetryAnswered(t) \/ CallToolRetryFailed(t)

ListToolsStep(t) ==
    \/ ListToolsStart(t) \/ ListToolsAnswered(t) \/ ListToolsFailed(t)
    \/ ListToolsAfterReconnect(t) \/ ListToolsRetryAnswered(t) \/ ListToolsRetryFailed(t)

HealthCheckStep(t) ==
    \/ PerformHealthCheckStart(t) \/ PerformHealthCheckAfterProbe(t)
    \/ PerformHealthCheckAfterReconnect(t)

BrowserStep(t) ==
    \/ BrowserConnectStart(t) \/ BrowserConnectAfterCooldown(t)
    \/ BrowserConnectAfterInitialize(t)
    \/ BrowserCallToolStart(t) \/ BrowserCallToolAfterConnect(t)
    \/ BrowserCallToolAfterSettle(t) \/ BrowserCallToolAfterCall(t)
    \/ BrowserCallToolReconnect(t) \/ BrowserCallToolAfterReconnect(t)
    \/ BrowserCallToolAfterRetry(t)

BrowserTimerStep(t) ==
    \/ KeepAliveStart(t) \/ CleanupIdleConnections(t) \/ KeepAliveAfterCleanup(t)
    \/ KeepAliveAfterHealthCheck(t) \/ KeepAliveAfterReconnect(t)
    \/ BrowserHealthCheckStart(t) \/ BrowserHealthCheckAfterTools(t)
    \/ BrowserReconnectStart(t) \/ BrowserReconnectAfterDisconnect(t)
    \/ BrowserReconnectConnect(t) \/ BrowserReconnectAfterConnect(t)
    \/ BrowserDisconnectStart(t) \/ BrowserDisconnectAfterMcp(t)

ServicesStep(t) ==
    \/ InitializeServicesStart(t) \/ InitializeServicesAfterInitialize(t)
    \/ ShutdownServicesStart(t) \/ ShutdownServicesAfterDisconnect(t)

\* AttemptReconnectAfterValidate needs initialize to end connected inside a
\* reconnect sequence, BrowserConnectRetry and BrowserConnectAfterRetry need
\* initialize to throw: with one caller neither happens (C3, C4), so they are
\* steps of the specifications with several callers only.

Caller == "t1"

\* One caller: tool calls, connects and health-check ticks follow one another.
Next ==
    \/ Invoke(Caller) \/ Connect(Caller) \/ HealthCheckTick(Caller)
    \/ BrowserConnect(Caller)
    \/ CooldownElapses
    \/ InitializeStep(Caller) \/ ReconnectStep(Caller) \/ FailureStep(Caller)
    \/ DisconnectStep(Caller) \/ CallToolStep(Caller) \/ ListToolsStep(Caller)
    \/ HealthCheckStep(Caller) \/ BrowserStep(Caller)
    \/ OnClose

Spec == Init /\ [][Next]_vars

\* The same, with the life cycle of the server: start-up, the keep-alive timer
\* of BrowserService, shutdown.
NextLifecycle ==
    \/ Invoke(Caller) \/ Connect(Caller) \/ HealthCheckTick(Caller)
    \/ BrowserConnect(Caller) \/ KeepAliveTick(Caller)
    \/ InitializeServices(Caller) \/ ShutdownServices(Caller)
    \/ BrowserTimerStep(Caller) \/ ServicesStep(Caller)
    \/ CooldownElapses
    \/ InitializeStep(Caller) \/ ReconnectStep(Caller) \/ FailureStep(Caller)
    \/ DisconnectStep(Caller) \/ CallToolStep(Caller) \/ ListToolsStep(Caller)
    \/ HealthCheckStep(Caller) \/ BrowserStep(Caller)
    \/ OnClose

SpecLifecycle == Init /\ [][NextLifecycle]_vars

\* Several callers ask MCPService to connect at the same time, from the state
\* after construction.
NextConcurrent ==
    \/ \E t \in Tasks :
         \/ ConcurrentConnect(t)
         \/ InitializeStep(t) \/ ReconnectStep(t)
         \/ AttemptReconnectAfterValidate(t)
         \/ DisconnectStep(t) \/ ListToolsStep(t)
    \/ OnClose

SpecConcurrent == Fresh /\ [][NextConcurrent]_vars

\* ------------------------------------------- ConnectionMonitor history
maxHistorySize == 100
\* most monitoring checks in one run
MaxEvents == 103

\* ConnectionMonitor.addConnectionEvent that evicts at the limit already
addConnectionEvent_EvictsEarly(connectionHistory, event) ==
    LET pushed == Append(connectionHistory, event)
    IN  IF Len(pushed) >= maxHistorySize THEN Tail(pushed) ELSE pushed

\* ConnectionMonitor.addConnectionEvent: push, then shift when over the limit
addConnectionEvent(connectionHistory, event) ==
    LET pushed == Append(connectionHistory, event)
    IN  IF Len(pushed) > maxHistorySize THEN Tail(pushed) ELSE pushed

\* performMonitoringCheck records the event of its check; events are named
\* by their number (every event carries its own timestamp)
MonitoringCheckRecords ==
    /\ calc.fn = "history" /\ calc.n < MaxEvents
    /\ calc' = [calc EXCEPT
                  !.n = @ + 1,
                  !.connectionHistory = addConnectionEvent(@, calc.n + 1)]
    /\ UNCHANGED <<mcpVars, browserVars, monitorInterval, open, spawned, stack, ret, cur,
                   closeMayFail, ops, inv, hist, failed>>

\* The history of a monitor that has just been constructed.
InitHistory ==
    /\ FreshServices
    /\ calc = [fn |-> "history", n |-> 0, connectionHistory |-> <<>>]

NextHistory == MonitoringCheckRecords

SpecHistory == InitHistory /\ [][NextHistory]_vars

\* Callers connect and disconnect MCPService at the same time (shutdown, the
\* connection monitor's recovery and BrowserService call disconnect()).
NextRace ==
    \/ \E t \in Tasks :
         \/ ConcurrentConnect(t) \/ ConcurrentDisconnect(t)
         \/ InitializeStep(t) \/ ReconnectStep(t)
         \/ AttemptReconnectAfterValidate(t)
         \/ DisconnectStep(t) \/ ListToolsStep(t)
    \/ OnClose

SpecRace == Fresh /\ [][NextRace]_vars

MonitorStep(t) ==
    \/ PerformMonitoringCheckStart(t) \/ PerformMonitoringCheckAfterRecovery(t)
    \/ TriggerAutoRecoveryStart(t) \/ TriggerAutoRecoveryAfterDisconnect(t)
    \/ TriggerAutoRecoveryAfterPause(t) \/ TriggerAutoRecoveryAfterInitialize(t)

\* The server starts and its two monitors tick: the health-check timer of
\* MCPService and the interval of ConnectionMonitor.
NextMonitor ==
    \/ MonitorOps(Caller)
    \/ MonitorStep(Caller)
    \/ InitializeServicesStart(Caller) \/ InitializeServicesAfterInitialize(Caller)
    \/ InitializeStep(Caller) \/ ReconnectStep(Caller) \/ FailureStep(Caller)
    \/ DisconnectStep(Caller) \/ ListToolsStep(Caller) \/ HealthCheckStep(Caller)
    \/ OnClose

SpecMonitor == Init /\ [][NextMonitor]_vars

\* Successive failed reconnect attempts, from any value of reconnectDelay.
InitBackoff ==
    /\ FreshServices
    /\ \E d \in ReconnectDelays :
         calc = [fn |-> "backoff", phase |-> "idle", attempts |-> 0, reconnectDelay |-> d,
                 delay |-> 0, plain |-> 0, prev |-> 0]

NextBackoff == BackoffAttempt \/ BackoffFailed

SpecBackoff == InitBackoff /\ [][NextBackoff]_vars

\* The quality score of any counters initialize can have produced.
InitQuality ==
    /\ FreshServices
    /\ \E c \in QualityCounters :
         calc = [fn |-> "quality", phase |-> "counted", total |-> c.total,
                 successful |-> c.successful, fast |-> c.fast, score |-> 0]

NextQuality == QualityScore

SpecQuality == InitQuality /\ [][NextQuality]_vars

\* ================================================================ Claims
\* inv[t] holds what the environment saw of the operation task t runs or has
\* run: op, the state it started in (conn0, client0, spawned0, total0, succ0,
\* att0), solo (no other task was active during it), envOk (nothing outside
\* the program failed during it), seqOk (nothing outside the program failed
\* since its last reconnect sequence began), issued (remote tool requests
\* sent) and recs (reconnect sequences begun).

\* C1: when two callers run initialize at the same time on a disconnected
\* service with no reconnect in flight, and nothing outside the program
\* fails, one transport is created and both callers get the same outcome.
C1_ConcurrentConnectSpawnsOnce ==
    (\A t \in Tasks : /\ Idle(t) /\ inv[t].op = "connect"
                      /\ ~inv[t].conn0 /\ ~inv[t].solo /\ inv[t].envOk)
      => /\ spawned = 1
         /\ \A t, u \in Tasks : ret[t] = ret[u]

\* C2: once maxReconnectAttempts attempts have failed and
\* handleReconnectionFailure has run, no step creates a new transport (the
\* program has no reset operation, so none can come before it).
C2_NoTransportAfterExhaustion ==
    [][failed => spawned' = spawned]_vars

\* C3: a reconnect sequence that took the isReconnecting flag, passed its
\* pre-connection check and met no outside failure finds, when its call of
\* initialize returns, the service connected on a live client with the
\* attempt counter at 0.
C3_ReconnectEndsConnected ==
    \A t \in Tasks :
      (/\ ~Idle(t)
       /\ Top(t).fn = "attemptReconnect" /\ Top(t).pc = "aw_init"
       /\ inv[t].seqOk)
        => /\ ret[t].kind = "ok"
           /\ isConnectedToMCP /\ client \in open /\ transport = client
           /\ reconnectAttempts = 0

\* C4: a connect() that started disconnected and during which no connection
\* was established ends with an error for its caller.
C4_FailedConnectRaises ==
    \A t \in Tasks :
      (/\ Idle(t) /\ inv[t].op = "connect"
       /\ ~inv[t].conn0
       /\ successfulConnections = inv[t].succ0)
        => ret[t].kind = "err"

\* C5: when MCPService.callTool has retried after a reconnect and the retry
\* failed too, the error callTool throws to its caller is the retry's error.
C5_RetryErrorSurfaced ==
    \A t \in Tasks :
      (/\ ~Idle(t)
       /\ Top(t).fn = "browserCallTool" /\ Top(t).pc \in {"aw_call", "aw_retry"}
       /\ ret[t].kind = "err"
       /\ hist[t] # NoErr)
        => ret[t].e = hist[t]

\* C6: one BrowserService.callTool sends the remote tool request at most
\* twice and begins at most one reconnect sequence.
C6_AtMostOneRetry ==
    \A t \in Tasks :
      inv[t].op = "invoke" => /\ inv[t].issued <= 2
                              /\ inv[t].recs <= 1

\* C7: over one BrowserService.callTool that ended in an error after the
\* remote request was sent at least twice, totalConnections grew by at most 1.
C7_OneConnectAttemptCounted ==
    \A t \in Tasks :
      (/\ Idle(t) /\ inv[t].op = "invoke"
       /\ ret[t].kind = "err"
       /\ inv[t].issued >= 2)
        => totalConnections - inv[t].total0 <= 1

\* C8: a BrowserService.callTool started while the service is not connected,
\* with nothing outside the program failing, creates exactly one transport,
\* begins no reconnect sequence, sends the request once and returns its result.
C8_InvokeConnectsOnce ==
    \A t \in Tasks :
      (/\ Idle(t) /\ inv[t].op = "invoke"
       /\ ~inv[t].conn0
       /\ inv[t].envOk)
        => /\ ret[t].kind = "ok"
           /\ spawned = inv[t].spawned0 + 1
           /\ totalConnections = inv[t].total0 + 1
           /\ inv[t].issued = 1
           /\ inv[t].recs = 0

\* C8 witness: a call that started disconnected has returned its result over
\* the transport it created.
C8_Witness ==
    \E t \in Tasks :
      /\ Idle(t) /\ inv[t].op = "invoke"
      /\ ~inv[t].conn0 /\ inv[t].envOk
      /\ ret[t].kind = "ok"
      /\ spawned = inv[t].spawned0 + 1
      /\ isConnectedToMCP /\ client = spawned /\ client \in open

\* C9: a BrowserService.callTool on a connected service whose request is
\* answered returns the result and leaves the connection as it was: same
\* client and transport, still open, nothing created, no connect or reconnect
\* sequence, attempt counter and isReconnecting unchanged.
C9_HealthyInvokeLeavesConnection ==
    \A t \in Tasks :
      (/\ Idle(t) /\ inv[t].op = "invoke"
       /\ inv[t].conn0
       /\ inv[t].envOk)
        => /\ ret[t].kind = "ok"
           /\ spawned = inv[t].spawned0
           /\ client = inv[t].client0 /\ transport = client /\ client \in open
           /\ isConnected
           /\ reconnectAttempts = inv[t].att0
           /\ ~isReconnecting
           /\ totalConnections = inv[t].total0
           /\ inv[t].issued = 1
           /\ inv[t].recs = 0

\* C9 witness: a call on a connected service has returned its result, also
\* when the attempt counter was not 0 before it.
C9_Witness ==
    \E t \in Tasks :
      /\ Idle(t) /\ inv[t].op = "invoke"
      /\ inv[t].conn0 /\ inv[t].envOk
      /\ ret[t].kind = "ok"
      /\ inv[t].att0 > 0 /\ reconnectAttempts = inv[t].att0

\* C10: when a health-check tick on a connected service has counted
\* maxConsecutiveHealthCheckFailures failures and the reconnect sequence it
\* asked for has returned, with its pre-connection check passed and no
\* outside failure, the transport has been rebuilt: the service is connected
\* on a new live client.
C10_ThresholdRebuildsTransport ==
    \A t \in Tasks :
      (/\ ~Idle(t)
       /\ Top(t).fn = "performHealthCheck" /\ Top(t).pc = "aw_rec"
       /\ inv[t].conn0
       /\ inv[t].seqOk /\ inv[t].att0 + inv[t].recs <= 3)
        => /\ isConnectedToMCP /\ client \in open
           /\ client # inv[t].client0

\* C11: a keep-alive tick that finds the service idle for more than 5 minutes,
\* on a connected service with an empty connection pool and with nothing
\* outside the program failing, completes without an error and has released
\* the transport: the MCP connection is closed.
C11_IdleSweepReleasesTransport ==
    \A t \in Tasks :
      (/\ Idle(t) /\ inv[t].op = "sweep"
       /\ inv[t].conn0
       /\ inv[t].envOk)
        => /\ ret[t].kind = "ok"
           /\ ~isConnected
           /\ client = 0 /\ transport = 0
           /\ inv[t].client0 \notin open

\* C12: no step of handleReconnectionFailure, the path taken once
\* maxReconnectAttempts attempts have failed, changes the attempt counter.
C12_FailurePathKeepsCounter ==
    [][\A t \in Tasks :
         (~Idle(t) /\ Top(t).fn = "handleReconnectionFailure")
           => reconnectAttempts' = reconnectAttempts]_vars

C14_QualityScoreAsStated ==
    (calc.fn = "quality" /\ calc.phase = "scored")
      => /\ calc.total = 0 => calc.score = 0
         /\ calc.total > 0 =>
              calc.score = (2 * (70 * calc.successful + 30 * calc.fast) + calc.total)
                             \div (2 * calc.total)
         /\ (calc.total > 0 /\ calc.fast = calc.total) => calc.score = 100
         /\ (calc.total > 0 /\ calc.fast < calc.total) =>
              /\ 70 * calc.successful <= calc.score * calc.total
              /\ calc.score * calc.total <= 70 * calc.successful + 30 * calc.total

\* C14 as amended: the quality score is an integer nearest to 100 * (0.7 *
\* successful / total + 0.3 * fast / total); it is 0 when total is 0, 100
\* when every attempt succeeded and was fast, and otherwise lies within 0.5 of
\* the interval from successRate * 70 to successRate * 70 + 30.
C14_QualityScoreWithinRounding ==
    (calc.fn = "quality" /\ calc.phase = "scored")
      => /\ calc.total = 0 => calc.score = 0
         /\ calc.total > 0 =>
              /\ 2 * calc.score * calc.total
                   >= 2 * (70 * calc.successful + 30 * calc.fast) - calc.total
              /\ 2 * calc.score * calc.total
                   <= 2 * (70 * calc.successful + 30 * calc.fast) + calc.total
         /\ (calc.total > 0 /\ calc.fast = calc.total) => calc.score = 100
         /\ (calc.total > 0 /\ calc.fast < calc.total) =>
              /\ 2 * 70 * calc.successful - calc.total <= 2 * calc.score * calc.total
              /\ 2 * calc.score * calc.total
                   <= 2 * (70 * calc.successful + 30 * calc.total) + calc.total

\* C14 witness: a score rounded to below successRate * 70, of counters with
\* failed and slow attempts among them.
C14_Witness ==
    /\ calc.fn = "quality" /\ calc.phase = "scored"
    /\ calc.total > 0 /\ calc.successful < calc.total /\ calc.fast < calc.successful
    /\ calc.score * calc.total < 70 * calc.successful

\* C15: in every state, also between the steps of connect sequences that run
\* at the same time, successfulConnections + failedConnections =
\* totalConnections.
C15_CountersAddUp ==
    successfulConnections + failedConnections = totalConnections

\* C15 witness: attempts have succeeded and failed, and a caller is inside
\* initialize while another has finished.
C15_Witness ==
    /\ successfulConnections > 0 /\ failedConnections > 0
    /\ \E t, u \in Tasks :
         /\ t # u
         /\ ~Idle(t) /\ inv[t].op = "connect"
         /\ Idle(u) /\ inv[u].op = "connect"

\* task t is inside a connect sequence (initialize past its two guards, up to
\* its probe) or a reconnect sequence (attemptReconnect after it has taken
\* the flag, up to its finally block)
InSequence(t) ==
    \E i \in 1..Len(stack[t]) :
      \/ /\ stack[t][i].fn = "initialize"
         /\ stack[t][i].pc \in {"aw_warm", "aw_connect", "aw_probe"}
      \/ /\ stack[t][i].fn = "attemptReconnect"
         /\ stack[t][i].pc # "start"

\* C16: isReconnecting is TRUE whenever a connect or reconnect sequence is in
\* flight, and no two sequences are in flight at the same time.
C16_FlagHeldThroughSequence ==
    /\ \A t \in Tasks : InSequence(t) => isReconnecting
    /\ \A t, u \in Tasks : (t # u /\ InSequence(t)) => ~InSequence(u)

\* C17: a connect() call that waited for a reconnect in flight and whose wait
\* ran out with isReconnecting still set ends with the wait's timeout error.
C17_WaitTimeoutRaises ==
    [][\A t \in Tasks :
         (/\ Len(stack[t]) = 1
          /\ Top(t).fn = "initialize" /\ Top(t).e = ErrWaitTimeout
          /\ stack'[t] = <<>>)
           => ret'[t] = Throw(ErrWaitTimeout)]_vars

\* C18: within one BrowserService.callTool that began on a disconnected
\* service, and so began with a connection attempt of its own, a later step
\* in which BrowserService.connect begins an attempt (calls
\* mcpService.initialize) is taken only when connectionCooldown has passed
\* since the attempt before it.
C18_AttemptsCooldownApart ==
    [][\A t \in Tasks :
         (/\ ~Idle(t) /\ Top(t).fn = "browserConnect"
          /\ inv[t].op = "invoke" /\ ~inv[t].conn0 /\ inv[t].issued >= 1
          /\ Len(stack'[t]) = Len(stack[t]) + 1
          /\ stack'[t][Len(stack'[t])].fn = "initialize")
           => ~attemptRecent]_vars

\* C19: once shutdownServices has completed, with nothing outside the program
\* failing, it has raised no error, none of the three periodic timers (health
\* check, connection monitor, keep-alive) is armed, and the transport is
\* closed.
C19_ShutdownLeavesNothingArmed ==
    \A t \in Tasks :
      (/\ Idle(t) /\ inv[t].op = "shutdown"
       /\ inv[t].envOk)
        => /\ ret[t].kind = "ok"
           /\ ~healthCheckInterval /\ ~monitorInterval /\ ~keepAliveInterval
           /\ ~isConnected /\ client = 0 /\ transport = 0
           /\ open = {}

\* C20: a connect() on a connected service (MCPService.initialize or
\* BrowserService.connect), with nothing outside the program failing, returns
\* normally and changes nothing: no transport is closed or created, and the
\* attempt counters, the metrics counters, the timestamps and the timers are
\* as they were.
C20_ConnectedConnectChangesNothing ==
    \A t \in Tasks :
      (/\ Idle(t) /\ inv[t].op \in {"connect", "bconnect"}
       /\ inv[t].conn0
       /\ inv[t].envOk)
        => /\ ret[t].kind = "ok"
           /\ spawned = inv[t].spawned0
           /\ open = inv[t].s0.open
           /\ mcpVars = inv[t].s0.mcp
           /\ <<connectionRetryCount, browserLastConnectionTime, keepAliveInterval>>
                = inv[t].s0.browser

\* C20 as amended: a connect() on a connected service returns normally,
\* closes and creates no transport and leaves the state of MCPService as it
\* was (connection, attempt counter, metrics counters, connection timestamp,
\* health-check timer); BrowserService.connect also records the time of the
\* call, sets connectionRetryCount to 0 and arms the keep-alive timer.
C20_ConnectedConnectKeepsConnection ==
    \A t \in Tasks :
      (/\ Idle(t) /\ inv[t].op \in {"connect", "bconnect"}
       /\ inv[t].conn0
       /\ inv[t].envOk)
        => /\ ret[t].kind = "ok"
           /\ spawned = inv[t].spawned0
           /\ open = inv[t].s0.open
           /\ mcpVars = inv[t].s0.mcp
           /\ inv[t].op = "connect" =>
                <<connectionRetryCount, browserLastConnectionTime, keepAliveInterval>>
                  = inv[t].s0.browser
           /\ inv[t].op = "bconnect" =>
                /\ connectionRetryCount = 0
                /\ browserLastConnectionTime # 0
                /\ keepAliveInterval

\* C20 witness: BrowserService.connect has returned on a service that was
\* connected and whose keep-alive timer was not armed; the timer is armed now.
C20_Witness ==
    \E t \in Tasks :
      /\ Idle(t) /\ inv[t].op = "bconnect"
      /\ inv[t].conn0 /\ inv[t].envOk
      /\ ret[t].kind = "ok"
      /\ ~inv[t].s0.browser[3] /\ keepAliveInterval
      /\ client = inv[t].client0 /\ client \in open

\* task t takes the step of initialize that follows its liveness probe, and
\* the probe has failed
ProbeFailedStep(t) ==
    /\ ~Idle(t)
    /\ Top(t).fn = "initialize" /\ Top(t).pc = "aw_probe"
    /\ ret[t].kind = "err"
    /\ Len(stack'[t]) = Len(stack[t]) - 1

\* C21: when the liveness probe on the transport a connect attempt has opened
\* fails, the attempt does not end with the service CONNECTED on that
\* transport after a successful attempt was recorded.
C21_ProbeDecidesSuccess ==
    [][\A t \in Tasks :
         ProbeFailedStep(t)
           => ~(/\ isConnected' /\ client' = Top(t).id
                /\ successfulConnections' > inv[t].succ0)]_vars

\* C21 as amended: a connect attempt counts as successful as soon as
\* client.connect has succeeded, before the probe: the step that follows the
\* connect sets isConnected, records a successful attempt and resets the
\* attempt counter; a failed probe is only logged: initialize returns
\* normally and leaves connection state, counters and health-check timer as
\* they were.
C21_ConnectedBeforeProbe ==
    [][\A t \in Tasks :
         /\ (/\ ~Idle(t)
             /\ Top(t).fn = "initialize" /\ Top(t).pc = "aw_connect"
             /\ Len(stack'[t]) = Len(stack[t]) + 1
             /\ stack'[t][Len(stack'[t])].fn = "listTools")
              => /\ isConnected' /\ reconnectAttempts' = 0
                 /\ successfulConnections' = successfulConnections + 1
                 /\ failedConnections' = failedConnections
         /\ ProbeFailedStep(t)
              => /\ ret'[t] = Ok
                 /\ UNCHANGED <<client, transport, isConnected, reconnectAttempts,
                                totalConnections, successfulConnections,
                                failedConnections, healthCheckInterval>>]_vars

\* C21 witness: a connect() on a fresh service has returned normally with the
\* service connected and a successful attempt recorded, and the health-check
\* timer is not armed: its probe failed.
C21_Witness ==
    \E t \in Tasks :
      /\ Idle(t) /\ inv[t].op = "connect" /\ ~inv[t].conn0
      /\ inv[t].total0 = 0
      /\ ret[t].kind = "ok"
      /\ isConnected /\ client \in open
      /\ successfulConnections = 1 /\ failedConnections = 0
      /\ ~healthCheckInterval

\* C22: in every state that the program has reached without a failure from
\* outside (the subprocess dying, a request failing), the periodic
\* health-check timer is armed only while the service is connected, also when
\* a disconnect() runs while a connect awaits its probe.
C22_HealthTimerOnlyWhileConnected ==
    (\A t \in Tasks : inv[t].envOk)
      => (healthCheckInterval => isConnected)

\* C23: after n monitoring checks the connection history holds at most
\* maxHistorySize events, and they are the last Min(n, maxHistorySize) events
\* in the order they were added.
C23_HistoryKeepsLatest ==
    calc.fn = "history"
      => LET kept == Min(calc.n, maxHistorySize)
         IN  /\ Len(calc.connectionHistory) <= maxHistorySize
             /\ calc.connectionHistory = [i \in 1..kept |-> calc.n - kept + i]

\* C23 witness: more than maxHistorySize checks have run and the oldest
\* events are gone.
C23_Witness ==
    /\ calc.fn = "history"
    /\ calc.n > maxHistorySize + 1
    /\ Len(calc.connectionHistory) = maxHistorySize
    /\ calc.connectionHistory[1] = calc.n - maxHistorySize + 1

\* C24: the step in which a tick of ConnectionMonitor decides forces a
\* recovery (calls triggerAutoRecovery) exactly when
\* consecutiveHealthCheckFailures >= 2, or the success rate of the connection
\* attempts is below 70 percent and at least one attempt has been made.
C24_RecoveryForcedWhenDegraded ==
    [][\A t \in Tasks :
         (/\ ~Idle(t)
          /\ Top(t).fn = "performMonitoringCheck" /\ Top(t).pc = "start"
          /\ stack'[t] # stack[t])
           => ((Len(stack'[t]) > Len(stack[t]))
                 <=> \/ consecutiveHealthCheckFailures >= 2
                     \/ /\ 100 * successfulConnections < 70 * totalConnections
                        /\ totalConnections > 0)]_vars

\* C25: a health-check tick or a monitor tick that has completed has completed
\* normally, whatever failed inside it: no error leaves the timer callback.
C25_TicksCompleteNormally ==
    \A t \in Tasks :
        (Idle(t) /\ inv[t].op \in {"tick", "monitor"}) => ret[t].kind # "err"

\* a health-check tick whose probe failed has completed
C25_Witness ==
    \E t \in Tasks :
        /\ Idle(t) /\ inv[t].op = "tick"
        /\ ~inv[t].envOk
        /\ ret[t].kind = "ok"

\* from now on close() of a client or of a transport may reject (the server
\* process has stopped answering)
CloseStartsFailing ==
    /\ cur = NoTask
    /\ ~closeMayFail
    /\ closeMayFail' = TRUE
    /\ UNCHANGED <<mcpVars, browserVars, open, spawned, stack, ret, cur, otherVars, obsVars>>

NextClose == NextMonitor \/ CloseStartsFailing
SpecClose == Init /\ [][NextClose]_vars

\* C26: when MCPService.disconnect returns, isConnected is false and the client
\* and the transport are both released (set to null), also when closing the
\* client raised an error.
C26_DisconnectReleasesAll ==
    [][\A t \in Tasks :
         (~Idle(t) /\ Top(t).fn = "disconnect" /\ Len(stack'[t]) < Len(stack[t]))
           => (~isConnected' /\ client' = 0 /\ transport' = 0)]_vars

\* ============================================== GPTService.parseInstructions
\* the longest step array the language model answers with
MaxSteps == 3

validMCPTools ==
    {"list_console_messages", "emulate_cpu", "emulate_network", "click", "drag", "fill",
     "fill_form", "hover", "upload_file", "get_network_request", "list_network_requests",
     "close_page", "handle_dialog", "list_pages", "navigate_page", "navigate_page_history",
     "new_page", "resize_page", "select_page", "performance_analyze_insight",
     "performance_start_trace", "performance_stop_trace", "take_screenshot",
     "evaluate_script", "take_snapshot", "wait_for"}

\* An element of the answered array: null, or an object whose action is a tool
\* name, a name that is no tool, or missing ("").
StepItems ==
    {[isNull |-> TRUE, action |-> ""]}
      \cup {[isNull |-> FALSE, action |-> a] : a \in {"click", "take_snapshot", "scroll", ""}}

StepArrays == UNION {[1..n -> StepItems] : n \in 0..MaxSteps}

\* What the chat-completion call yields: it rejects, the 30 s timer wins the
\* race, the message has no content, the content is no JSON, the content is
\* JSON that is no array, or it is an array.
Completions ==
    {[kind |-> k, items |-> <<>>] : k \in {"rejected", "timeout", "empty", "text", "object"}}
      \cup {[kind |-> "array", items |-> a] : a \in StepArrays}

\* the steps parseInstructions falls back to
DefaultSteps ==
    <<[stepNumber |-> 1, action |-> "navigate_page"],
      [stepNumber |-> 2, action |-> "take_snapshot"]>>

\* parseInstructions that returns the converted steps unfiltered
parseInstructions_Unfiltered(completion) ==
    LET threw == \/ completion.kind \in {"rejected", "timeout", "empty", "object"}
                 \/ /\ completion.kind = "array"
                    /\ \E i \in DOMAIN completion.items : completion.items[i].isNull
        parsedSteps == IF completion.kind = "text"
                         THEN <<[isNull |-> FALSE, action |-> "navigate_page"],
                                [isNull |-> FALSE, action |-> "take_snapshot"]>>
                         ELSE completion.items
        taskSteps == [i \in DOMAIN parsedSteps |->
                        [stepNumber |-> i,
                         action |-> IF parsedSteps[i].action = "" THEN "navigate_page"
                                    ELSE parsedSteps[i].action]]
        validSteps == taskSteps
    IN  IF threw THEN DefaultSteps
        ELSE IF Len(validSteps) = 0 THEN DefaultSteps
        ELSE validSteps

\* parseInstructions, by the steps it returns.  threw: the try block is left
\* by an error (the call rejects or times out, the content is empty, .map is
\* applied to what is no array, .action is read from null); the catch block
\* returns the default steps.
parseInstructions(completion) ==
    LET threw == \/ completion.kind \in {"rejected", "timeout", "empty", "object"}
                 \/ /\ completion.kind = "array"
                    /\ \E i \in DOMAIN completion.items : completion.items[i].isNull
        parsedSteps == IF completion.kind = "text"
                         THEN <<[isNull |-> FALSE, action |-> "navigate_page"],
                                [isNull |-> FALSE, action |-> "take_snapshot"]>>
                         ELSE completion.items
        taskSteps == [i \in DOMAIN parsedSteps |->
                        [stepNumber |-> i,
                         action |-> IF parsedSteps[i].action = "" THEN "navigate_page"
                                    ELSE parsedSteps[i].action]]
        validSteps == SelectSeq(taskSteps, LAMBDA step : step.action \in validMCPTools)
    IN  IF threw THEN DefaultSteps
        ELSE IF Len(validSteps) = 0 THEN DefaultSteps
        ELSE validSteps

ParseInstructions ==
    /\ calc.fn = "parse" /\ calc.phase = "asked"
    /\ calc' = [calc EXCEPT !.phase = "returned",
                            !.steps = parseInstructions(calc.completion)]
    /\ UNCHANGED <<mcpVars, browserVars, monitorInterval, open, spawned, stack, ret, cur,
                   closeMayFail, ops, inv, hist, failed>>

\* parseInstructions on any outcome of the chat-completion call
InitParse ==
    /\ FreshServices
    /\ \E c \in Completions :
         calc = [fn |-> "parse", phase |-> "asked", completion |-> c, steps |-> <<>>]

NextParse == ParseInstructions

SpecParse == InitParse /\ [][NextParse]_vars

\* the answer holds no usable step: it is no array, or every element is null
\* or names an action that is no tool
WhollyInvalid(completion) ==
    \/ completion.kind # "array"
    \/ \A i \in DOMAIN completion.items :
         \/ completion.items[i].isNull
         \/ completion.items[i].action \notin validMCPTools \cup {""}

\* C27: parseInstructions returns a non-empty list whose every step names a
\* valid tool; when the call fails or times out, or the answer is empty,
\* unparseable or wholly invalid, the list is the two default steps
\* navigate_page, take_snapshot.
C27_ParseReturnsValidSteps ==
    (calc.fn = "parse" /\ calc.phase = "returned")
      => /\ Len(calc.steps) > 0
         /\ \A i \in DOMAIN calc.steps : calc.steps[i].action \in validMCPTools
         /\ WhollyInvalid(calc.completion) => calc.steps = DefaultSteps

\* C27 witness: an answer with a tool step and a step that names no tool has
\* been parsed, and only the tool step is returned
C27_Witness ==
    /\ calc.fn = "parse" /\ calc.phase = "returned"
    /\ calc.completion.kind = "array"
    /\ \E i, j \in DOMAIN calc.completion.items :
         /\ calc.completion.items[i].action = "scroll"
         /\ calc.completion.items[j].action = "click"
    /\ \A i \in DOMAIN calc.completion.items : ~calc.completion.items[i].isNull
    /\ Len(calc.steps) < Len(calc.completion.items)

\* ================================================= executeTaskAutomation
\* The step loop of a task run.  calc holds the run: pc (the await the run is
\* at), i (the step of the current iteration), status and retryCount of every
\* step, executions (how often the action of each step has been started) and
\* taskStatus, which the execute route changes while the run awaits.
RunSteps == 2

\* the statements after the loop
RunFinish(run) ==
    [run EXCEPT !.pc = "done",
                !.taskStatus = IF \E k \in 1..RunSteps : run.status[k] = "failed"
                                 THEN "failed" ELSE "completed"]

\* the loop head for step j: the loop test, the test of task.status, and the
\* call of browserService.healthCheck
RunIteration(run, j) ==
    IF j > RunSteps \/ run.taskStatus # "running"
      THEN RunFinish(run)
      ELSE [run EXCEPT !.i = j, !.pc = "aw_health"]

\* the step is marked failed and the loop goes on to the progress log and the
\* 1 s pause
RunStepFailed(run) == [run EXCEPT !.status[run.i] = "failed", !.pc = "aw_delay"]

RunUnchanged ==
    UNCHANGED <<mcpVars, browserVars, monitorInterval, open, spawned, stack, ret, cur,
                closeMayFail, ops, inv, hist, failed>>

RunAt(pc) == calc.fn = "run" /\ calc.pc = pc

\* the browser tab has been created: the loop is entered
RunEnterLoop ==
    /\ RunAt("aw_tab")
    /\ calc' = RunIteration(calc, 1)
    /\ RunUnchanged

\* healthCheck has returned (it returns false where it fails)
RunAfterHealthCheck ==
    /\ RunAt("aw_health")
    /\ \E isHealthy \in BOOLEAN :
         calc' = IF isHealthy
                   THEN [calc EXCEPT !.status[calc.i] = "running",
                                     !.executions[calc.i] = @ + 1,
                                     !.pc = "aw_action"]
                   ELSE [calc EXCEPT !.pc = "aw_pre_disconnect"]
    /\ RunUnchanged

\* the disconnect before a step has returned (disconnect catches its errors)
RunAfterPreDisconnect ==
    /\ RunAt("aw_pre_disconnect")
    /\ calc' = [calc EXCEPT !.pc = "aw_pre_connect"]
    /\ RunUnchanged

\* the connect before a step has completed; when it throws the step is
\* marked failed and the loop continues at once with the next step
RunAfterPreConnect ==
    /\ RunAt("aw_pre_connect")
    /\ \E connected \in BOOLEAN :
         calc' = IF connected
                   THEN [calc EXCEPT !.status[calc.i] = "running",
                                     !.executions[calc.i] = @ + 1,
                                     !.pc = "aw_action"]
                   ELSE RunIteration([calc EXCEPT !.status[calc.i] = "failed"],
                                     calc.i + 1)
    /\ RunUnchanged

\* the action of the step has completed; outcome: it returned, it threw an
\* error whose message names a connection problem, or it threw another error
RunAfterAction ==
    /\ RunAt("aw_action")
    /\ \E outcome \in {"ok", "connection", "other"} :
         calc' = IF outcome = "ok"
                   THEN [calc EXCEPT !.status[calc.i] = "completed", !.pc = "aw_delay"]
                 ELSE IF outcome = "connection" /\ calc.retryCount[calc.i] = 0
                   THEN [calc EXCEPT !.pc = "aw_retry_disconnect"]
                 ELSE RunStepFailed(calc)
    /\ RunUnchanged

RunAfterRetryDisconnect ==
    /\ RunAt("aw_retry_disconnect")
    /\ calc' = [calc EXCEPT !.pc = "aw_retry_wait"]
    /\ RunUnchanged

RunAfterRetryWait ==
    /\ RunAt("aw_retry_wait")
    /\ calc' = [calc EXCEPT !.pc = "aw_retry_connect"]
    /\ RunUnchanged

\* the connect of the retry has completed: retryCount = 1, i--, continue; when
\* it throws the step has finally failed
RunAfterRetryConnect ==
    /\ RunAt("aw_retry_connect")
    /\ \E connected \in BOOLEAN :
         calc' = IF connected
                   THEN RunIteration([calc EXCEPT !.retryCount[calc.i] = 1], calc.i)
                   ELSE RunStepFailed(calc)
    /\ RunUnchanged

\* the pause between two steps is over
RunAfterDelay ==
    /\ RunAt("aw_delay")
    /\ calc' = RunIteration(calc, calc.i + 1)
    /\ RunUnchanged

\* POST /:id/execute with action pause, resume or stop while the run awaits
ExecuteRoute ==
    /\ calc.fn = "run" /\ calc.pc # "done"
    /\ \E action \in {"pause", "resume", "stop"} :
         /\ action = "pause" => calc.taskStatus = "running"
         /\ action = "resume" => calc.taskStatus = "pending"
         /\ action = "stop" => calc.taskStatus # "cancelled"
         /\ calc' = [calc EXCEPT !.taskStatus = CASE action = "pause" -> "pending"
                                                  [] action = "resume" -> "running"
                                                  [] OTHER -> "cancelled"]
    /\ RunUnchanged

\* A run that has parsed its steps, connected and created its tab.
InitRun ==
    /\ FreshServices
    /\ calc = [fn |-> "run", pc |-> "aw_tab", i |-> 0,
               status |-> [k \in 1..RunSteps |-> "pending"],
               retryCount |-> [k \in 1..RunSteps |-> 0],
               executions |-> [k \in 1..RunSteps |-> 0],
               taskStatus |-> "running"]

NextRun ==
    \/ RunEnterLoop \/ RunAfterHealthCheck
    \/ RunAfterPreDisconnect \/ RunAfterPreConnect
    \/ RunAfterAction
    \/ RunAfterRetryDisconnect \/ RunAfterRetryWait \/ RunAfterRetryConnect
    \/ RunAfterDelay
    \/ ExecuteRoute

SpecRun == InitRun /\ [][NextRun]_vars

\* C28: in a task run the action of a step is started at most twice (one
\* retry), a step that has finally failed is marked failed while the run goes
\* on, and when the run has ended every step it visited is completed or
\* failed.
C28_StepsRetriedOnceAndSettled ==
    calc.fn = "run"
      => /\ \A k \in 1..RunSteps : calc.executions[k] <= 2
         /\ calc.pc = "aw_delay" => calc.status[calc.i] \in {"completed", "failed"}
         /\ calc.pc = "done"
              => \A k \in 1..RunSteps :
                   calc.status[k] \in {"pending", "completed", "failed"}

\* ====================================================== this.reconnectDelay
\* reconnectDelay is counted in quarters of a millisecond, which makes every
\* value it takes an integer (1000 * 1.5^5 is 7593.75 ms).
Ms == 4

\* handleNetworkError: Math.min(this.reconnectDelay * 1.5, 10000).  The
\* integer division is exact wherever the product is below the cap.
handleNetworkErrorDelay(reconnectDelay) == Min((reconnectDelay * 3) \div 2, 10000 * Ms)

DelayUnchanged ==
    UNCHANGED <<mcpVars, browserVars, monitorInterval, open, spawned, stack, ret, cur,
                closeMayFail, ops, inv, hist, failed>>

\* a transport error classified as network: handleNetworkError raises the delay
HandleNetworkError ==
    /\ calc.fn = "delay"
    /\ calc' = [calc EXCEPT !.last = "network", !.before = calc.reconnectDelay,
                            !.reconnectDelay = handleNetworkErrorDelay(@)]
    /\ DelayUnchanged

\* a reconnect attempt fails: below maxReconnectAttempts the catch block of
\* attemptReconnect doubles the delay, at maxReconnectAttempts
\* handleReconnectionFailure resets the counter
ReconnectAttemptFails ==
    /\ calc.fn = "delay"
    /\ calc' = IF calc.attempts + 1 >= maxReconnectAttempts
                 THEN [calc EXCEPT !.last = "failed", !.before = calc.reconnectDelay,
                                   !.attempts = 0]
                 ELSE [calc EXCEPT !.last = "failed", !.before = calc.reconnectDelay,
                                   !.attempts = @ + 1,
                                   !.reconnectDelay = Min(@ * 2, 30000 * Ms)]
    /\ DelayUnchanged

\* a reconnect attempt succeeds: the counter is reset, the delay stays
ReconnectAttemptSucceeds ==
    /\ calc.fn = "delay"
    /\ calc.attempts > 0
    /\ calc' = [calc EXCEPT !.last = "reconnected", !.before = calc.reconnectDelay,
                            !.attempts = 0]
    /\ DelayUnchanged

\* a transport error classified as protocol: handleProtocolError resets the delay
HandleProtocolError ==
    /\ calc.fn = "delay"
    /\ calc' = [calc EXCEPT !.last = "protocol", !.before = calc.reconnectDelay,
                            !.reconnectDelay = 1000 * Ms]
    /\ DelayUnchanged

\* reconnectDelay of a service that has just been constructed
InitDelay ==
    /\ FreshServices
    /\ calc = [fn |-> "delay", last |-> "none", before |-> 1000 * Ms, attempts |-> 0,
               reconnectDelay |-> 1000 * Ms]

NextDelay ==
    \/ HandleNetworkError \/ HandleProtocolError
    \/ ReconnectAttemptFails \/ ReconnectAttemptSucceeds

SpecDelay == InitDelay /\ [][NextDelay]_vars

\* C29: handleNetworkError never lowers the base reconnect delay: the value
\* after it is at least the value before it, for every value the delay takes.
C29_NetworkErrorNeverLowersDelay ==
    (calc.fn = "delay" /\ calc.last = "network") => calc.reconnectDelay >= calc.before

\* ============================================================ classifyError
\* An error is given by the substrings its lower-cased message contains (has)
\* and by its code; "chaoshi" stands for the two Chinese characters of
\* "timeout", "" for no code.
MessageTokens ==
    {"network", "connection", "timeout", "chaoshi", "memory", "resource", "busy",
     "protocol", "invalid", "malformed"}
ErrorCodes ==
    {"", "ECONNREFUSED", "ENOTFOUND", "ENETUNREACH", "ETIMEDOUT", "EMFILE", "ENOMEM",
     "EPIPE"}
RawErrors == [has : SUBSET MessageTokens, code : ErrorCodes]

\* classifyError with the timeout test before the network test
classifyError_TimeoutFirst(error) ==
    LET includes(token) == token \in error.has
        errorCode == error.code
    IN  IF \/ includes("timeout") \/ includes("chaoshi")
           \/ errorCode = "ETIMEDOUT"
          THEN "timeout"
        ELSE IF \/ includes("network") \/ includes("connection")
                \/ errorCode = "ECONNREFUSED" \/ errorCode = "ENOTFOUND"
                \/ errorCode = "ENETUNREACH"
          THEN "network"
        ELSE IF \/ includes("memory") \/ includes("resource") \/ includes("busy")
                \/ errorCode = "EMFILE" \/ errorCode = "ENOMEM"
          THEN "resource"
        ELSE IF includes("protocol") \/ includes("invalid") \/ includes("malformed")
          THEN "protocol"
        ELSE "generic"

\* MCPService.classifyError
classifyError(error) ==
    LET includes(token) == token \in error.has
        errorCode == error.code
    IN  IF \/ includes("network") \/ includes("connection")
           \/ errorCode = "ECONNREFUSED" \/ errorCode = "ENOTFOUND"
           \/ errorCode = "ENETUNREACH"
          THEN "network"
        ELSE IF \/ includes("timeout") \/ includes("chaoshi")
                \/ errorCode = "ETIMEDOUT"
          THEN "timeout"
        ELSE IF \/ includes("memory") \/ includes("resource") \/ includes("busy")
                \/ errorCode = "EMFILE" \/ errorCode = "ENOMEM"
          THEN "resource"
        ELSE IF includes("protocol") \/ includes("invalid") \/ includes("malformed")
          THEN "protocol"
        ELSE "generic"

\* handleConnectionError classifies the error of the transport
ClassifyError ==
    /\ calc.fn = "classify" /\ calc.phase = "raised"
    /\ calc' = [calc EXCEPT !.phase = "classified", !.errorType = classifyError(calc.error)]
    /\ UNCHANGED <<mcpVars, browserVars, monitorInterval, open, spawned, stack, ret, cur,
                   closeMayFail, ops, inv, hist, failed>>

\* any error the transport raises
InitClassify ==
    /\ FreshServices
    /\ \E error \in RawErrors :
         calc = [fn |-> "classify", phase |-> "raised", error |-> error, errorType |-> ""]

NextClassify == ClassifyError

SpecClassify == InitClassify /\ [][NextClassify]_vars

\* the order of the categories and the pattern set of each
CategoryOrder == <<"network", "timeout", "resource", "protocol">>
CategoryMatches(category, error) ==
    CASE category = "network" ->
           \/ error.has \cap {"network", "connection"} # {}
           \/ error.code \in {"ECONNREFUSED", "ENOTFOUND", "ENETUNREACH"}
      [] category = "timeout" ->
           \/ error.has \cap {"timeout", "chaoshi"} # {}
           \/ error.code = "ETIMEDOUT"
      [] category = "resource" ->
           \/ error.has \cap {"memory", "resource", "busy"} # {}
           \/ error.code \in {"EMFILE", "ENOMEM"}
      [] category = "protocol" ->
           error.has \cap {"protocol", "invalid", "malformed"} # {}

\* C30: classifyError returns the first category, in the order network,
\* timeout, resource, protocol, whose patterns the error matches, and generic
\* when it matches none; an error matching network and timeout is network.
C30_FirstMatchingCategory ==
    (calc.fn = "classify" /\ calc.phase = "classified")
      => LET matching == {i \in DOMAIN CategoryOrder :
                            CategoryMatches(CategoryOrder[i], calc.error)}
         IN  IF matching = {} THEN calc.errorType = "generic"
             ELSE \E i \in matching :
                    /\ \A j \in matching : i <= j
                    /\ calc.errorType = CategoryOrder[i]

\* C30 witness: an error that matches the timeout and the network patterns
\* has been classified as network
C30_Witness ==
    /\ calc.fn = "classify" /\ calc.phase = "classified"
    /\ CategoryMatches("timeout", calc.error)
    /\ CategoryMatches("network", calc.error)
    /\ calc.errorType = "network"

\* ==================================================== handleConnectionError
\* one error of each class that client.onerror can deliver
ErrorSamples ==
    {[has |-> {"connection"}, code |-> "ECONNREFUSED"],
     [has |-> {"timeout"}, code |-> ""],
     [has |-> {"busy"}, code |-> "EMFILE"],
     [has |-> {"malformed"}, code |-> ""],
     [has |-> {}, code |-> "EPIPE"]}

\* client.onerror fires: handleConnectionError is called with the error; the
\* frame keeps errorType in e
OnError(t) ==
    /\ ops < MaxConnects
    /\ client # 0
    /\ \E error \in ErrorSamples :
         StartOpWith(t, "onerror",
                     [NewFrame("handleConnectionError") EXCEPT !.e = classifyError(error)])

\* handleConnectionError in which handleGenericError does not reconnect
HandleConnectionErrorStart_GenericGivesUp(t) ==
    /\ At(t, "handleConnectionError", "start")
    /\ CASE Top(t).e = "resource" -> Await(t, Pc(t, "aw_wait"))
         [] Top(t).e = "protocol" -> Call(t, Pc(t, "aw_fd"), "forceDisconnect")
         [] Top(t).e = "generic" -> Return(t, Ok)
         [] OTHER -> Call(t, Pc(t, "aw_rec"), "attemptReconnect")
    /\ UNCHANGED <<mcpVars, browserVars, open, spawned, closeMayFail, otherVars, obsVars>>

\* the switch of handleConnectionError and the first segment of the handler
\* it calls: handleResourceError waits 5 s, handleProtocolError calls
\* forceDisconnect, the others (network, timeout, generic) adjust a parameter
\* at most and call attemptReconnect
HandleConnectionErrorStart(t) ==
    /\ At(t, "handleConnectionError", "start")
    /\ CASE Top(t).e = "resource" -> Await(t, Pc(t, "aw_wait"))
         [] Top(t).e = "protocol" -> Call(t, Pc(t, "aw_fd"), "forceDisconnect")
         [] OTHER -> Call(t, Pc(t, "aw_rec"), "attemptReconnect")
    /\ UNCHANGED <<mcpVars, browserVars, open, spawned, closeMayFail, otherVars, obsVars>>

\* handleResourceError: the 5 s are over
HandleResourceErrorAfterWait(t) ==
    /\ At(t, "handleConnectionError", "aw_wait")
    /\ Call(t, Pc(t, "aw_fd"), "forceDisconnect")
    /\ UNCHANGED <<mcpVars, browserVars, open, spawned, closeMayFail, otherVars, obsVars>>

\* handleResourceError, handleProtocolError: forceDisconnect has returned
HandleErrorAfterForceDisconnect(t) ==
    /\ At(t, "handleConnectionError", "aw_fd")
    /\ Call(t, Pc(t, "aw_rec"), "attemptReconnect")
    /\ UNCHANGED <<mcpVars, browserVars, open, spawned, closeMayFail, otherVars, obsVars>>

\* attemptReconnect has returned: the handler and handleConnectionError end
HandleConnectionErrorAfterReconnect(t) ==
    /\ At(t, "handleConnectionError", "aw_rec")
    /\ Return(t, IF ret[t].kind = "err" THEN ret[t] ELSE Ok)
    /\ UNCHANGED <<mcpVars, browserVars, open, spawned, closeMayFail, otherVars, obsVars>>

HandleConnectionErrorStep(t) ==
    \/ HandleConnectionErrorStart(t) \/ HandleResourceErrorAfterWait(t)
    \/ HandleErrorAfterForceDisconnect(t) \/ HandleConnectionErrorAfterReconnect(t)

\* One caller: errors of the client, one after the other.  initialize, called
\* by attemptReconnect, finds the reconnect flag set and waits for it (C3), so
\* that it neither disconnects nor creates a client here.
NextError ==
    \/ OnError(Caller) \/ HandleConnectionErrorStep(Caller)
    \/ InitializeStart(Caller) \/ InitializeAfterWait(Caller)
    \/ InitializeAfterReconnect(Caller)
    \/ WaitForReconnectionStart(Caller) \/ WaitForReconnectionPoll(Caller)
    \/ ReconnectStep(Caller) \/ FailureStep(Caller)
    \/ OnClose

SpecError == Init /\ [][NextError]_vars

\* C31: whatever the class of the error, handleConnectionError calls
\* attemptReconnect exactly once: it ends only after having called it, and it
\* does not call it again once it has.
C31_EveryClassReconnectsOnce ==
    [][\A t \in Tasks :
         (~Idle(t) /\ Top(t).fn = "handleConnectionError" /\ stack'[t] # stack[t])
           => /\ Len(stack'[t]) < Len(stack[t]) => Top(t).pc = "aw_rec"
              /\ (/\ Len(stack'[t]) > Len(stack[t])
                  /\ stack'[t][Len(stack'[t])].fn = "attemptReconnect")
                   => /\ Top(t).pc # "aw_rec"
                      /\ stack'[t][Len(stack[t])].pc = "aw_rec"]_vars

\* C31 witness: the handler of a resource error has waited, disconnected and
\* called attemptReconnect, which has begun one sequence and returned
C31_Witness ==
    \E t \in Tasks :
        /\ ~Idle(t) /\ Top(t).fn = "handleConnectionError"
        /\ Top(t).pc = "aw_rec" /\ Top(t).e = "resource"
        /\ cur = t /\ inv[t].recs = 1

\* C32: a health-check tick begins a reconnect sequence only when
\* consecutiveHealthCheckFailures has reached
\* maxConsecutiveHealthCheckFailures: a failed probe below the threshold
\* starts no reconnection.
C32_TickReconnectsAtThresholdOnly ==
    [][\A t \in Tasks :
         (inv[t].op = "tick" /\ inv'[t].op = "tick" /\ inv'[t].recs > inv[t].recs)
           => consecutiveHealthCheckFailures >= maxConsecutiveHealthCheckFailures]_vars

\* C33: in the step in which initialize establishes the connection,
\* consecutiveHealthCheckFailures is 0 afterwards: no failure counted against
\* the previous connection is carried over to the new one.
C33_FreshConnectionHasNoFailures ==
    [][(~isConnected /\ isConnected') => consecutiveHealthCheckFailures' = 0]_vars

\* C34: every transport whose subprocess is alive is the transport the
\* service refers to; so at most one spawned subprocess is un-closed.
C34_OnlyReferencedTransportOpen ==
    /\ open \subseteq {transport}
    /\ Cardinality(open) <= 1

\* the interval timer of ConnectionMonitor.startMonitoring fires, whether or
\* not the callback of an earlier tick has completed
MonitorTick(t) ==
    ops < MaxConnects /\ monitorInterval /\ StartOp(t, "monitor", "performMonitoringCheck")

\* A connected service after two health-check ticks whose probe failed with an
\* error that is no connection error; the reconnect sequence the second tick
\* began was stopped by the pre-connection check.
InitDegraded == Connected(1, maxConsecutiveHealthCheckFailures)

\* The ticks of the connection monitor, 10 s apart, each running to its end in
\* its own time.
NextTicks ==
    \E t \in Tasks :
         \/ MonitorTick(t) \/ MonitorStep(t)
         \/ InitializeStep(t) \/ ReconnectStep(t)
         \/ AttemptReconnectAfterValidate(t)
         \/ DisconnectStep(t) \/ ListToolsStep(t)

SpecTicks == InitDegraded /\ [][NextTicks]_vars

\* C35: at most one task is inside triggerAutoRecovery: no monitor tick begins
\* a recovery while the recovery of an earlier tick has not finished.
C35_OneRecoveryInFlight ==
    Cardinality({t \in Tasks :
                   \E i \in DOMAIN stack[t] : stack[t][i].fn = "triggerAutoRecovery"}) <= 1

\* Two activities at a time, one for each task, each a connect, a tool call, a
\* tick of the health-check timer or (OnError) an error of the client.
AttemptOps(t) ==
    /\ ops < MaxConnects
    /\ \/ StartOp(t, "connect", "initialize")
       \/ StartOp(t, "call", "callTool")
       \/ healthCheckInterval /\ StartOp(t, "tick", "performHealthCheck")

NextAttempts ==
    \E t \in Tasks :
         \/ inv[t].op = "none" /\ AttemptOps(t)
         \/ inv[t].op = "none" /\ OnError(t)
         \/ HandleConnectionErrorStep(t)
         \/ InitializeStep(t) \/ ReconnectStep(t) \/ FailureStep(t)
         \/ AttemptReconnectAfterValidate(t)
         \/ DisconnectStep(t) \/ CallToolStep(t) \/ ListToolsStep(t)
         \/ HealthCheckStep(t)

\* A connected service one reconnect sequence below the limit.
InitNearLimit ==
    \E misses \in {0, maxConsecutiveHealthCheckFailures - 1} :
        Connected(maxReconnectAttempts - 1, misses) /\ ~attemptRecent

SpecAttempts == InitNearLimit /\ [][NextAttempts]_vars

\* C36: reconnectAttempts is never negative and never above
\* maxReconnectAttempts.
C36_AttemptsWithinLimit ==
    reconnectAttempts \in 0..maxReconnectAttempts

\* C36 witness: the counter is at the limit while two activities are under way
C36_Witness ==
    /\ reconnectAttempts = maxReconnectAttempts
    /\ \A t \in Tasks : ~Idle(t)

\* BrowserService.connect is called again and again by one caller while the
\* other caller's connection error sets off the last permitted reconnect sequence.
OtherCaller == "t2"

BrowserConnectAgain ==
    ops <= MaxConnects /\ StartOp(Caller, "bconnect", "browserConnect")

OtherCallerError ==
    /\ inv[OtherCaller].op = "none"
    /\ ops < MaxConnects
    /\ client # 0
    /\ StartOpWith(OtherCaller, "onerror",
                   [NewFrame("handleConnectionError") EXCEPT
                      !.e = classifyError([has |-> {"connection"}, code |-> "ECONNREFUSED"])])

NextBrowser ==
    \/ BrowserConnectAgain \/ OtherCallerError
    \/ BrowserConnectStart(Caller) \/ BrowserConnectAfterCooldown(Caller)
    \/ BrowserConnectAfterInitialize(Caller)
    \/ BrowserConnectRetry(Caller) \/ BrowserConnectAfterRetry(Caller)
    \/ HandleConnectionErrorStart(OtherCaller)
    \/ HandleConnectionErrorAfterReconnect(OtherCaller)
    \/ \E t \in Tasks :
         \/ InitializeStep(t) \/ ReconnectStep(t) \/ FailureStep(t)
         \/ AttemptReconnectAfterValidate(t)
         \/ DisconnectStep(t) \/ ListToolsStep(t)

SpecBrowser == InitNearLimit /\ [][NextBrowser]_vars

\* C37: connectionRetryCount of BrowserService never exceeds
\* maxConnectionRetries, over any sequence of connect() calls.
C37_RetryCountWithinLimit ==
    connectionRetryCount <= maxConnectionRetries

\* C39: once stop has set the status of a task to cancelled, the status does
\* not change again; the run that is still under way does not overwrite it.
C39_CancelledIsFinal ==
    [][(calc.fn = "run" /\ calc.taskStatus = "cancelled")
         => calc'.taskStatus = "cancelled"]_vars

\* ------------------------------------------------- the runs of one task
\* POST /:id/execute with start, pause, resume and stop, and the runs of
\* executeTaskAutomation that start launches.  calc holds task.status, the
\* run whose parsed steps are task.steps, and for each run its position, its
\* loop index and whether one of its steps has failed.
MaxRuns == 2

Runs == 1..MaxRuns

IdleRun == [pc |-> "idle", i |-> 0, failed |-> FALSE]

InFlight(run) == run.pc \notin {"idle", "done"}

TasksAt(r, pc) == calc.fn = "tasks" /\ calc.run[r].pc = pc

\* the statements of executeTaskAutomation after the loop
TaskFinish(c, r) ==
    [c EXCEPT !.run[r].pc = "done",
              !.taskStatus = IF c.run[c.owner].failed THEN "failed" ELSE "completed"]

\* the loop head of run r for step j
TaskIteration(c, r, j) ==
    IF j > RunSteps \/ c.taskStatus # "running"
      THEN TaskFinish(c, r)
      ELSE [c EXCEPT !.run[r].i = j, !.run[r].pc = "aw_step"]

\* the route: start launches executeTaskAutomation without awaiting it
ExecuteAction ==
    /\ calc.fn = "tasks"
    /\ \E action \in {"start", "pause", "resume", "stop"} :
         CASE action = "start" ->
                /\ calc.taskStatus = "pending"
                /\ \E r \in Runs :
                     /\ calc.run[r].pc = "idle"
                     /\ \A q \in Runs : q < r => calc.run[q].pc # "idle"
                     /\ calc' = [calc EXCEPT !.taskStatus = "running",
                                             !.run[r].pc = "aw_parse"]
           [] action = "pause" ->
                /\ calc.taskStatus = "running"
                /\ calc' = [calc EXCEPT !.taskStatus = "pending"]
           [] action = "resume" ->
                /\ calc.taskStatus = "pending"
                /\ calc' = [calc EXCEPT !.taskStatus = "running"]
           [] OTHER ->
                /\ calc.taskStatus # "cancelled"
                /\ calc' = [calc EXCEPT !.taskStatus = "cancelled"]
    /\ RunUnchanged

\* gptService.parseInstructions has returned: task.steps = steps
TaskAfterParse(r) ==
    /\ TasksAt(r, "aw_parse")
    /\ calc' = [calc EXCEPT !.owner = r, !.run[r].pc = "aw_tab"]
    /\ RunUnchanged

\* connect, listTools and createNewTab have completed; where one of them
\* throws the outer catch sets the status to failed
TaskAfterSetup(r) ==
    /\ TasksAt(r, "aw_tab")
    /\ \E threw \in BOOLEAN :
         calc' = IF threw
                   THEN [calc EXCEPT !.run[r].pc = "done", !.taskStatus = "failed"]
                   ELSE TaskIteration(calc, r, 1)
    /\ RunUnchanged

\* the step of the loop has been settled as completed or failed
TaskAfterStep(r) ==
    /\ TasksAt(r, "aw_step")
    /\ \E stepFailed \in BOOLEAN :
         calc' = [calc EXCEPT !.run[r].failed = @ \/ stepFailed,
                              !.run[r].pc = "aw_delay"]
    /\ RunUnchanged

\* the pause between two steps is over
TaskAfterDelay(r) ==
    /\ TasksAt(r, "aw_delay")
    /\ calc' = TaskIteration(calc, r, calc.run[r].i + 1)
    /\ RunUnchanged

InitTasks ==
    /\ FreshServices
    /\ calc = [fn |-> "tasks", taskStatus |-> "pending", owner |-> 1,
               run |-> [r \in Runs |-> IdleRun]]

NextTasks ==
    \/ ExecuteAction
    \/ \E r \in Runs :
         \/ TaskAfterParse(r) \/ TaskAfterSetup(r)
         \/ TaskAfterStep(r) \/ TaskAfterDelay(r)

SpecTasks == InitTasks /\ [][NextTasks]_vars

\* C38: for one task at most one run of executeTaskAutomation is under way,
\* whatever sequence of start, pause, resume and stop is sent.
C38_OneRunInFlight ==
    calc.fn = "tasks"
      => Cardinality({r \in Runs : InFlight(calc.run[r])}) <= 1
====
